---- MODULE Spec2Model ----
(***************************************************************************)
(* Model of pytest_keycloak.manager.KeycloakManager: the lifecycle manager *)
(* of a local Keycloak server (install, start, readiness, stop, snapshot   *)
(* and restore of data/ and conf/, the class-wide instance registry).      *)
(*                                                                         *)
(* Every manager of the model shares one install_dir and version, hence    *)
(* one distribution directory (keycloak_dir), as the test-suite does.      *)
(* Time is abstracted: a timeout may elapse whenever the code is waiting.  *)
(* Two snapshots are assumed never to be named by the same timestamp, and  *)
(* except in SpecStamp no two constructors run within the same second.     *)
(***************************************************************************)
EXTENDS Integers, Sequences, FiniteSets, TLC

\* ------------------------------------------------------------- bounds
NumInst == 2            \* managers that may be constructed
MaxPid  == 3            \* child processes that may be spawned in one run
MaxTimeout == 2         \* longest timeout of wait_for_ready, in poll intervals
MaxJava == 18           \* newest Java release a machine may have
MaxLegacyJava == 8      \* newest release whose banner reads "1.<major>"
MaxUsers == 2           \* users a realm configuration may list
MaxClients == 2         \* clients a realm configuration may list
MaxCreated == 3         \* users one test may create through keycloak_user

\* ------------------------------------------------- program constants
DefaultPort == 8080     \* __init__: self.port = port if port is not None else 8080
MgmtOffset  == 1000     \* management port = http port + 1000
MaxAttempts == 100      \* _find_available_ports(max_attempts=100)
MinJavaMajor == 17      \* check_java_version: if major_version >= 17
MaxPort == 65535        \* socket.bind: "port must be 0-65535"

Inst    == 1..NumInst
Pid     == 1..MaxPid
Threads == {"t1", "t2"}
\* Ports some process outside the model may hold.
ExtPorts == {DefaultPort, DefaultPort + 1 + MgmtOffset}

VARIABLES
    instances,  \* KeycloakManager._instances, a sequence of manager ids
    lock,       \* KeycloakManager._lock: "free" or the thread holding it
    mgr,        \* the fields of each manager
    proc,       \* the child processes spawned so far (subprocess.Popen)
    fs,         \* the shared distribution directory and the archive
    ext,        \* ports bound by processes outside the model
    thr         \* each calling thread: its position and its last outcome

vars == <<instances, lock, mgr, proc, fs, ext, thr>>

\* ------------------------------------------------------- file system
\* A directory is [ex |-> it exists, files |-> its files]; files = {} when absent.
NoDir      == [ex |-> FALSE, files |-> {}]
DbFile     == <<"db", 0>>          \* what the server writes under data/
ConfFile   == <<"keycloak.conf", 0>> \* the configuration the archive ships
GenFile    == <<"generated", 0>>   \* what the server writes under conf/
RealmFile(p) == <<"realm", p>>     \* data/import/realm-<p>.json

AddFile(d, f) == [ex |-> TRUE, files |-> d.files \cup {f}]
DelFile(d, f) == [d EXCEPT !.files = @ \ {f}]

NoBackup == [set |-> FALSE, data |-> NoDir, conf |-> NoDir]

\* An empty install_dir. faults tells whether the system calls stop() makes
\* (signalling the process, unlinking, copying and removing trees) may
\* fail in this run; heirs, whether the launcher leaves child processes
\* of its own that keep its output pipe open after it; exec, whether
\* bin/kc.sh carries the execute permission; broken, whether the last
\* download_and_install that went on to download raised.
NoInstall == [dir |-> FALSE, launcher |-> FALSE, exec |-> FALSE, zip |-> FALSE,
              data |-> NoDir, conf |-> NoDir, faults |-> FALSE, heirs |-> FALSE,
              broken |-> FALSE]

\* --------------------------------------------------------- processes
\* reader: the thread running _read_output on the output pipe of the
\* process is alive.
NoProc == [st |-> "none", owner |-> 0, port |-> 0, mgmt |-> 0,
           bound |-> FALSE, ready |-> FALSE, term |-> FALSE, kill |-> FALSE,
           reader |-> FALSE]
DeadProc == [NoProc EXCEPT !.st = "dead"]

Alive(pid) == pid # 0 /\ proc[pid].st = "alive"

\* stop() going straight to the forced kill.
terminate_by_kill(q) == [proc EXCEPT ![q].kill = TRUE]

\* process.terminate(): the graceful termination signal.
terminate(q) == [proc EXCEPT ![q].term = TRUE]

\* A kill that is never sent.
kill_not_sent(q) == proc

\* process.kill(): the forced kill.
kill(q) == [proc EXCEPT ![q].kill = TRUE]

\* The next unused process id (MaxPid + 1 when all are used).
NextPid == IF \E q \in Pid : proc[q].st = "none"
           THEN CHOOSE q \in Pid : proc[q].st = "none"
                                   /\ \A r \in Pid : r < q => proc[r].st # "none"
           ELSE MaxPid + 1

\* Ports on which a bind would fail now: those a process outside holds and
\* those a live server listens on.
BoundPorts == ext \cup UNION {{proc[q].port, proc[q].mgmt} :
                              q \in {r \in Pid : proc[r].st = "alive" /\ proc[r].bound}}

\* ---------------------------------------------------------- managers
NoMgr == [made |-> FALSE, explicit |-> FALSE, port |-> 0, mgmt |-> 0,
          \* history: __init__ was given a management_port
          mgmt_pinned |-> FALSE,
          \* data_dir: the second "instance_<timestamp>" names
          data_dir |-> 0,
          process |-> 0, realm_file |-> 0, backup |-> NoBackup,
          out_thread |-> FALSE, log_file |-> FALSE,
          \* history, read by no operation: data/ and conf/ as the start in
          \* progress found them; whether a stop() has signalled a process;
          \* whether a wait_for_ready called by itself has timed out
          pre |-> NoBackup, cycled |-> FALSE, timed_out |-> FALSE,
          \* history: a start() has taken a snapshot and no stop() has run
          \* _restore_directories on it since
          fresh |-> FALSE,
          \* history: the last _restore_directories of a stop() raised
          restore_failed |-> FALSE,
          \* atexit.register(self._cleanup_on_exit) is done and has not run
          atexit |-> FALSE]

\* is_running(): a process handle is held and poll() finds no exit status.
is_running(i) == mgr[i].process # 0 /\ proc[mgr[i].process].st = "alive"

\* A probe that finds every port free.
port_never_in_use(p) == FALSE

\* _is_port_in_use(port): the bind attempt fails.
is_port_in_use(p) == p \in BoundPorts

\* s.bind(("localhost", port)) with a port that is no port number raises
\* OverflowError, which is no OSError: _is_port_in_use neither returns
\* True nor False.
bind_overflows(p) == p < 0 \/ p > MaxPort

\* What _find_available_ports comes to: the pair it returns, or the error
\* raised (then the pair is <<0, 0>>).
Found(http, mgmt) == [exc |-> "none", pair |-> <<http, mgmt>>]
NotFound(exc) == [exc |-> exc, pair |-> <<0, 0>>]

\* One turn of the loop of _find_available_ports, at offset k: the http
\* port is probed, then, if it is free, the management port. The turn
\* returns the pair ("free"), goes on to the next offset ("busy") or lets
\* the error of the bind out ("overflow").
find_available_ports_turn(start, k) ==
    LET http == start + k
        mgmt == http + MgmtOffset
    IN  IF bind_overflows(http) THEN "overflow"
        ELSE IF is_port_in_use(http) THEN "busy"
        ELSE IF bind_overflows(mgmt) THEN "overflow"
        ELSE IF is_port_in_use(mgmt) THEN "busy"
        ELSE "free"

\* _find_available_ports(start_port): the first offset below max_attempts at
\* which both the http and the management port bind, or the
\* KeycloakStartError raised when there is none.
find_available_ports(start) ==
    LET ends(k) == find_available_ports_turn(start, k) # "busy" IN
    IF ~\E k \in 0..(MaxAttempts - 1) : ends(k)
    THEN NotFound("KeycloakStartError")
    ELSE LET k == CHOOSE x \in 0..(MaxAttempts - 1) :
                      ends(x) /\ \A y \in 0..(x - 1) : ~ends(y)
         IN  IF find_available_ports_turn(start, k) = "overflow"
             THEN NotFound("OverflowError")
             ELSE Found(start + k, start + k + MgmtOffset)

\* ------------------------------------------------- RealmConfig (config.py)
\* An Optional[str] is <<>> for None and <<s>> for the string s; it is
\* true in a Python condition when it holds a non-empty string.
None == <<>>
Some(x) == <<x>>
Truthy(opt) == opt # <<>> /\ opt[1] # ""

\* UserConfig and ClientConfig values with the defaults of their fields.
UserConfig(name, password, email, first, last, realm_roles) ==
    [username |-> name, password |-> password, email |-> email,
     first_name |-> first, last_name |-> last, enabled |-> TRUE,
     realm_roles |-> realm_roles, client_roles |-> <<>>]
ClientConfig(id, public, secret) ==
    [client_id |-> id, enabled |-> TRUE, public_client |-> public,
     redirect_uris |-> <<"http://localhost:*">>,
     web_origins |-> <<"http://localhost:*">>,
     direct_access_grants_enabled |-> TRUE, secret |-> secret]

\* The users and clients configurations are made of.
SampleUsers ==
    {UserConfig("alice", "pw-a", None, None, None, <<>>),
     UserConfig("bob", "pw-b", Some("bob@example.com"), Some("Bob"), Some("B"), <<"user">>),
     UserConfig("carol", "", Some(""), None, Some("C"), <<"admin", "user">>)}
SampleClients ==
    {ClientConfig(id, public, secret) :
        id \in {"app"}, public \in BOOLEAN, secret \in {None, Some(""), Some("s3cr3t")}}

SeqsUpTo(S, n) == UNION {[1..k -> S] : k \in 0..n}

NoRealm == [realm |-> "", enabled |-> FALSE, users |-> <<>>, clients |-> <<>>]
RealmConfigs ==
    {[realm |-> "test", enabled |-> e, users |-> us, clients |-> cs] :
        e \in BOOLEAN, us \in SeqsUpTo(SampleUsers, MaxUsers),
        cs \in SeqsUpTo(SampleClients, MaxClients)}

\* A dict with the entries of d and, when cond holds, those of extra.
With(d, cond, extra) == IF cond THEN extra @@ d ELSE d

\* A credential marked temporary.
user_credentials_temporary(user) ==
    <<[type |-> "password", value |-> user.password, temporary |-> TRUE]>>

\* "credentials": [{"type": "password", "value": user.password,
\* "temporary": False}]
user_credentials(user) ==
    <<[type |-> "password", value |-> user.password, temporary |-> FALSE]>>

\* to_keycloak_json, "Convert users": the entry of one user.
user_data(user) ==
    LET d0 == [username |-> user.username, enabled |-> user.enabled,
               credentials |-> user_credentials(user)]
        d1 == With(d0, Truthy(user.email),
                   [email |-> user.email[1], emailVerified |-> TRUE])
        d2 == With(d1, Truthy(user.first_name), [firstName |-> user.first_name[1]])
        d3 == With(d2, Truthy(user.last_name), [lastName |-> user.last_name[1]])
        d4 == With(d3, user.realm_roles # <<>>, [realmRoles |-> user.realm_roles])
    IN  With(d4, user.client_roles # <<>>, [clientRoles |-> user.client_roles])

\* A secret written out for every client that has one.
secret_whenever_set(client) == Truthy(client.secret)

\* "if client.secret and not client.public_client:"
secret_included(client) == Truthy(client.secret) /\ ~client.public_client

\* to_keycloak_json, "Convert clients": the entry of one client.
client_data(client) ==
    With([clientId |-> client.client_id, enabled |-> client.enabled,
          publicClient |-> client.public_client,
          redirectUris |-> client.redirect_uris,
          webOrigins |-> client.web_origins,
          directAccessGrantsEnabled |-> client.direct_access_grants_enabled,
          standardFlowEnabled |-> TRUE, implicitFlowEnabled |-> FALSE,
          serviceAccountsEnabled |-> ~client.public_client],
         secret_included(client), [secret |-> client.secret[1]])

\* RealmConfig.to_keycloak_json(): the realm import document.
to_keycloak_json(cfg) ==
    [realm |-> cfg.realm, enabled |-> cfg.enabled,
     verifyEmail |-> FALSE, registrationEmailAsUsername |-> FALSE,
     users |-> [k \in 1..Len(cfg.users) |-> user_data(cfg.users[k])],
     clients |-> [k \in 1..Len(cfg.clients) |-> client_data(cfg.clients[k])],
     roles |-> [realm |-> <<[name |-> "user", description |-> "User role"],
                           [name |-> "admin", description |-> "Admin role"]>>]]

\* ----------------------------------------------------------- threads
Idle == [pc |-> "idle", op |-> "none", self |-> 0, realm |-> FALSE, wait |-> FALSE,
         exc |-> "none", cause |-> "none", path |-> "none",
         \* to_keycloak_json: the RealmConfig it is called on, what it returns
         cfg |-> NoRealm, doc |-> [realm |-> ""],
         \* stop(): the steps of this call that raised and were swallowed
         failed |-> {},
         \* download_and_install: what "java -version" did on this call
         java |-> [run |-> "none", shape |-> "none", major |-> 0],
         \* wait_for_ready called by itself: its timeout, the time since its
         \* entry and the reading of start_time, in poll intervals, and the
         \* outcomes of the health probes after which it went on polling
         timeout |-> 0, now |-> 0, start_time |-> 0, seen |-> {},
         \* _find_available_ports called by itself: its start_port and the
         \* pair it returned
         start_port |-> 0, pair |-> <<0, 0>>,
         \* get_running_instances_count: the number it returned
         count |-> 0,
         \* keycloak_user: created_users; the ids delete_user was called
         \* with, in call order; those whose deletion raised
         created_users |-> <<>>, deletions |-> <<>>, undeleted |-> {}]
Off  == [Idle EXCEPT !.pc = "off"]

\* The frame of a thread at the moment its call returns (exc = "none") or
\* raises; the caller then goes on (Return).
Ret(op, i, exc, path) ==
    [Idle EXCEPT !.pc = "ret", !.op = op, !.self = i, !.exc = exc, !.path = path]
\* The frame of a thread inside a call.
In(pc, op, i, realm, wait) ==
    [Idle EXCEPT !.pc = pc, !.op = op, !.self = i, !.realm = realm, !.wait = wait]

Init ==
    /\ instances = <<>>
    /\ lock = "free"
    /\ mgr = [i \in Inst |-> NoMgr]
    /\ proc = [q \in Pid |-> NoProc]
    /\ fs = NoInstall
    /\ ext = {}
    /\ thr = [t \in Threads |-> IF t = "t1" THEN Idle ELSE Off]

\* A lock that whoever asks for is given.
lock_ignored == TRUE

\* "with self._lock": the class lock is a threading.Lock, which nobody can
\* take while it is held, its holder included.
lock_free == lock = "free"

\* The manager __init__ is about to build: the first one not built yet.
NewInst == CHOOSE i \in Inst : mgr[i].port = 0 /\ \A j \in Inst : j < i => mgr[j].port # 0

\* The second the wall clock showed at the latest construction; the clock
\* does not run backwards.
LastStamp ==
    LET stamps == {mgr[i].data_dir : i \in Inst} \cup {1}
    IN  CHOOSE s \in stamps : \A r \in stamps : r <= s

\* A management port that does not follow the http port.
default_management_port_fixed(port) == DefaultPort + MgmtOffset

\* "management_port if management_port is not None else self.port + 1000"
default_management_port(port) == port + MgmtOffset

\* __init__(port, management_port) up to the registration, at second ts of
\* the wall clock: under the lock, every registered instance found running
\* is stopped; then the fields are set, data_dir from
\* time.strftime("%Y%m%d_%H%M%S"). stop() takes the lock __init__ is
\* holding, so at the first running instance the thread blocks for good.
Construct_ports(t, port, management_port, ts) ==
    /\ lock_free
    /\ \E i \in Inst : mgr[i].port = 0
    /\ LET i == NewInst IN
       IF \E j \in 1..Len(instances) : is_running(instances[j])
       THEN /\ lock' = t
            /\ thr' = [thr EXCEPT ![t] = In("ctor_blocked", "init", i, FALSE, FALSE)]
            /\ UNCHANGED mgr
       ELSE /\ LET http == IF port # None THEN port[1] ELSE DefaultPort IN
               mgr' = [mgr EXCEPT ![i] =
                         [NoMgr EXCEPT !.explicit = (port # None \/ management_port # None),
                                       !.data_dir = ts,
                                       !.port = http,
                                       !.mgmt = IF management_port # None
                                                THEN management_port[1]
                                                ELSE default_management_port(http),
                                       !.mgmt_pinned = (management_port # None)]]
            /\ thr' = [thr EXCEPT ![t] = In("init_register", "init", i, FALSE, FALSE)]
            /\ UNCHANGED lock
    /\ UNCHANGED <<instances, proc, fs, ext>>

\* __init__ with no port given, or (explicit) with port = 8080.
Construct_at(t, explicit, ts) ==
    Construct_ports(t, IF explicit THEN Some(DefaultPort) ELSE None, None, ts)

\* A constructor given any of port and management_port.
Construct_pinned(t, port, management_port) ==
    /\ thr[t].pc = "idle"
    /\ Construct_ports(t, port, management_port, LastStamp + 1)

\* A constructor called a second or more after the one before it.
Construct(t, explicit) ==
    /\ thr[t].pc = "idle"
    /\ Construct_at(t, explicit, LastStamp + 1)

\* A constructor called d seconds of the wall clock after the one before
\* it: within the same second when d = 0.
Construct_after(t, explicit, d) ==
    /\ thr[t].pc = "idle"
    /\ Construct_at(t, explicit, LastStamp + d)

\* __init__: under the lock again, the new manager is appended to the
\* registry; the constructor returns and the manager can be used.
Construct_register(t) ==
    /\ thr[t].pc = "init_register"
    /\ lock_free
    /\ LET i == thr[t].self IN
       /\ instances' = Append(instances, i)
       /\ mgr' = [mgr EXCEPT ![i].made = TRUE, ![i].atexit = TRUE]
       /\ thr' = [thr EXCEPT ![t] = Ret("init", i, "none", "made")]
    /\ UNCHANGED <<lock, proc, fs, ext>>

\* ----------------------------------------------- _find_available_ports
\* _find_available_ports(start_port) called by itself on any manager.
find_available_ports_call(t, start) ==
    /\ thr[t].pc = "idle"
    /\ LET found == find_available_ports(start) IN
       thr' = [thr EXCEPT ![t] =
                 [Ret("find_available_ports", 0, found.exc,
                      IF found.exc = "none" THEN "found" ELSE "raised")
                    EXCEPT !.start_port = start, !.pair = found.pair]]
    /\ UNCHANGED <<instances, lock, mgr, proc, fs, ext>>

\* ------------------------------------------------------- RealmConfig
\* Thread t calls to_keycloak_json() on the configuration it holds.
to_keycloak_json_call(t) ==
    /\ thr[t].pc = "idle"
    /\ thr[t].cfg # NoRealm
    /\ thr' = [thr EXCEPT ![t] =
                 [Ret("to_keycloak_json", 0, "none", "done")
                    EXCEPT !.cfg = thr[t].cfg, !.doc = to_keycloak_json(thr[t].cfg)]]
    /\ UNCHANGED <<instances, lock, mgr, proc, fs, ext>>

\* ------------------------------------------------ download_and_install
\* The archive as extracted over the distribution directory and the
\* scripts made executable: the launcher and the shipped conf/ appear;
\* data/ is not part of the archive.
Extracted(f) == [f EXCEPT !.dir = TRUE, !.launcher = TRUE, !.exec = TRUE,
                          !.broken = FALSE,
                          !.conf = AddFile(f.conf, ConfFile)]

\* The installation check looking for a launcher that is never there.
already_installed_wrong_launcher == fs.dir /\ FALSE

\* "Check if already installed": the directory and bin/kc.sh both exist.
already_installed == fs.dir /\ fs.launcher

\* What running "java -version" can do on a machine: the command is not
\* there, it does not answer within 10 s, or it prints its banner. The
\* banner names the release <major> as "1.<major>.0_<u>" up to Java 8
\* (legacy) and, since Java 9, as "<major>.<minor>.<patch>" (dotted),
\* "<major>" (bare) or "<major>-ea" (early access); or it names none.
NoJava      == [run |-> "none", shape |-> "none", major |-> 0]
JavaMissing == [run |-> "missing", shape |-> "none", major |-> 0]
JavaTimeout == [run |-> "timeout", shape |-> "none", major |-> 0]
JavaBanner(shape, major) == [run |-> "ok", shape |-> shape, major |-> major]
JavaGood    == JavaBanner("dotted", MinJavaMajor)
JavaOutputs ==
    {JavaMissing, JavaTimeout, JavaBanner("none", 0)}
    \cup {JavaBanner("legacy", m) : m \in 1..MaxLegacyJava}
    \cup {JavaBanner(sh, m) : sh \in {"dotted", "bare", "ea"},
                              m \in (MaxLegacyJava + 1)..MaxJava}

\* re.search(r'version "(\d+)\.') and, failing that,
\* re.search(r'version "(\d+)"'): the digits after the opening quote when a
\* dot or the closing quote follows them; -1 stands for no match.
java_version_match(o) ==
    CASE o.shape = "legacy" -> 1
      [] o.shape = "dotted" -> o.major
      [] o.shape = "bare"   -> o.major
      [] OTHER              -> -1

\* A check that every machine passes.
java_unchecked(o) == "True"

\* check_java_version(): True, or the error it raises.
check_java_version(o) ==
    IF o.run # "ok" THEN "JavaNotFoundError"
    ELSE IF java_version_match(o) = -1 THEN "JavaNotFoundError"
    ELSE IF java_version_match(o) >= MinJavaMajor THEN "True"
    ELSE "JavaNotFoundError"

\* A finally clause that leaves the archive where it is.
install_finally_keeps_zip(f) == f

\* "finally: if zip_path.exists(): zip_path.unlink()"
install_finally(f) == [f EXCEPT !.zip = FALSE]

\* download_and_install up to the end of the download: the Java check,
\* the early return when installed, then the archive is fetched to the
\* temporary zip. The download may be refused before the zip is opened or
\* cut while it is written; either way the finally clause runs.
download_and_install(t, i, o) ==
    /\ thr[t].pc = "idle"
    /\ mgr[i].made
    /\ \E download \in {"ok", "refused", "cut"} :
         IF check_java_version(o) # "True"
         THEN /\ thr' = [thr EXCEPT ![t] =
                          [Ret("install", i, check_java_version(o), "java") EXCEPT !.java = o]]
              /\ UNCHANGED fs
         ELSE IF already_installed
         THEN /\ thr' = [thr EXCEPT ![t] =
                          [Ret("install", i, "none", "already") EXCEPT !.java = o]]
              /\ UNCHANGED fs
         ELSE IF download # "ok"
         THEN /\ thr' = [thr EXCEPT ![t] =
                          [Ret("install", i, "KeycloakDownloadError", download) EXCEPT !.java = o]]
              /\ fs' = install_finally([fs EXCEPT !.zip = (download = "cut"),
                                                   !.broken = TRUE])
         ELSE /\ thr' = [thr EXCEPT ![t] =
                          [In("install_extract", "install", i, FALSE, FALSE) EXCEPT !.java = o]]
              /\ fs' = [fs EXCEPT !.zip = TRUE]
    /\ UNCHANGED <<instances, lock, mgr, proc, ext>>

\* The extraction, and the finally clause that unlinks the zip. A bad
\* archive extracts nothing; an extraction that fails part-way leaves the
\* directory without the launcher (partial), or with the launcher as
\* extractall wrote it, the chmod loop not reached (unmarked).
download_and_install_extract(t) ==
    /\ thr[t].pc = "install_extract"
    /\ LET i == thr[t].self IN
       \E outcome \in {"ok", "badzip", "partial", "unmarked"} :
         /\ fs' = install_finally(CASE outcome = "ok" -> Extracted(fs)
                                    [] outcome = "badzip" -> [fs EXCEPT !.broken = TRUE]
                                    [] outcome = "partial" ->
                                         [fs EXCEPT !.dir = TRUE, !.broken = TRUE]
                                    [] OTHER ->
                                         [fs EXCEPT !.dir = TRUE, !.launcher = TRUE,
                                                    !.broken = TRUE])
         /\ thr' = [thr EXCEPT ![t] =
                      [(IF outcome = "ok" THEN Ret("install", i, "none", "installed")
                        ELSE Ret("install", i, "KeycloakDownloadError", outcome))
                         EXCEPT !.java = thr[t].java]]
    /\ UNCHANGED <<instances, lock, mgr, proc, ext>>

\* --------------------------------------------------------------- start
\* A snapshot that copies nothing and leaves no reference.
backup_directories_skipped(f) == NoBackup

\* _backup_directories(): the snapshot holds a copy of data/ and of conf/,
\* each only if it exists.
backup_directories(f) == [set |-> TRUE, data |-> f.data, conf |-> f.conf]

\* start(), from taking the lock to the end of the port check: the no-op
\* when running, the "not installed" error, then the pinned ports are
\* probed or a free pair is searched from self.port upward.
\* start() without its early return.
start_never_skips(i) == FALSE

\* "if self.is_running(): ... return"
start_already_running(i) == is_running(i)

\* start() without its installation check.
start_install_unchecked == FALSE

\* "Ensure Keycloak is installed": the distribution directory exists.
start_not_installed == ~fs.dir

start(t, i, realm, wait) ==
    /\ thr[t].pc = "idle"
    /\ lock_free
    /\ mgr[i].made
    /\ LET found == find_available_ports(mgr[i].port)
           pair  == found.pair
       IN
       IF start_already_running(i)
       THEN /\ thr' = [thr EXCEPT ![t] = Ret("start", i, "none", "noop")]
            /\ UNCHANGED <<lock, mgr>>
       ELSE IF start_not_installed
       THEN /\ thr' = [thr EXCEPT ![t] = Ret("start", i, "KeycloakStartError", "not_installed")]
            /\ UNCHANGED <<lock, mgr>>
       ELSE IF mgr[i].explicit /\ (is_port_in_use(mgr[i].port) \/ is_port_in_use(mgr[i].mgmt))
       THEN /\ thr' = [thr EXCEPT ![t] = Ret("start", i, "KeycloakStartError", "port_in_use")]
            /\ UNCHANGED <<lock, mgr>>
       ELSE IF ~mgr[i].explicit /\ found.exc # "none"
       THEN /\ thr' = [thr EXCEPT ![t] = Ret("start", i, found.exc, "no_ports")]
            /\ UNCHANGED <<lock, mgr>>
       ELSE /\ NextPid <= MaxPid
            /\ lock' = t
            /\ thr' = [thr EXCEPT ![t] = In("start_prepare", "start", i, realm, wait)]
            /\ mgr' = [mgr EXCEPT ![i].port = IF mgr[i].explicit THEN @ ELSE pair[1],
                                  ![i].mgmt = IF mgr[i].explicit THEN @ ELSE pair[2],
                                  ![i].pre = backup_directories(fs)]
    /\ UNCHANGED <<instances, proc, fs, ext>>

\* start(): the import document is written when a realm_config is given,
\* the log file is named, then data/ and conf/ are snapshotted.
start_prepare(t) ==
    /\ thr[t].pc = "start_prepare"
    /\ LET i  == thr[t].self
           f1 == IF thr[t].realm
                 THEN [fs EXCEPT !.data = AddFile(fs.data, RealmFile(mgr[i].port))]
                 ELSE fs
       IN /\ fs' = f1
          /\ mgr' = [mgr EXCEPT ![i].realm_file = IF thr[t].realm THEN mgr[i].port ELSE @,
                                ![i].log_file = TRUE,
                                ![i].backup = backup_directories(f1),
                                ![i].fresh = TRUE]
          /\ thr' = [thr EXCEPT ![t].pc = "start_spawn"]
    /\ UNCHANGED <<instances, lock, proc, ext>>

\* The except clause of start(): a held process is killed and the handle
\* dropped; whatever was raised (cause) leaves start as a
\* KeycloakStartError.
start_failed(t, cause, path) ==
    LET i == thr[t].self
        q == mgr[i].process
    IN  /\ proc' = IF q # 0 /\ proc[q].st = "alive"
                   THEN kill(q) ELSE proc
        /\ mgr' = [mgr EXCEPT ![i].process = 0, ![i].pre = NoBackup]
        /\ thr' = [thr EXCEPT ![t] =
                     [Ret("start", i, "KeycloakStartError", path) EXCEPT !.cause = cause]]
        /\ lock' = "free"

\* subprocess.Popen and the reader thread. Without the launcher, or with
\* one that is not executable, Popen raises and the except clause runs
\* with no process held.
start_spawn(t) ==
    /\ thr[t].pc = "start_spawn"
    /\ LET i == thr[t].self IN
       IF ~fs.launcher
       THEN start_failed(t, "FileNotFoundError", "spawn")
       ELSE IF ~fs.exec
       THEN start_failed(t, "PermissionError", "spawn")
       ELSE /\ proc' = [proc EXCEPT ![NextPid] =
                          [NoProc EXCEPT !.st = "alive", !.owner = i, !.reader = TRUE,
                                         !.port = mgr[i].port, !.mgmt = mgr[i].mgmt]]
            /\ mgr' = [mgr EXCEPT ![i].process = NextPid, ![i].out_thread = TRUE]
            /\ thr' = [thr EXCEPT ![t].pc = "start_settle"]
            /\ UNCHANGED lock
    /\ UNCHANGED <<instances, fs, ext>>

\* After time.sleep(2): a child that has exited fails the start; otherwise
\* start returns, or goes on to wait_for_ready.
start_settle(t) ==
    /\ thr[t].pc = "start_settle"
    /\ LET i == thr[t].self IN
       IF proc[mgr[i].process].st # "alive"
       THEN start_failed(t, "KeycloakStartError", "exited")
       ELSE IF thr[t].wait
       THEN /\ thr' = [thr EXCEPT ![t].pc = "start_health"]
            /\ UNCHANGED <<lock, mgr, proc>>
       ELSE /\ thr' = [thr EXCEPT ![t] = Ret("start", i, "none", "started")]
            /\ lock' = "free"
            /\ UNCHANGED <<mgr, proc>>
    /\ UNCHANGED <<instances, fs, ext>>

\* A server that has finished starting listens on port p and answers
\* requests: whichever server holds the port, the manager's own or not.
serving(p) ==
    \E q \in Pid : /\ proc[q].st = "alive" /\ ~proc[q].kill
                   /\ proc[q].bound /\ proc[q].ready
                   /\ p \in {proc[q].port, proc[q].mgmt}

\* The health probe taking any answer for a 200.
health_any_answer(i) == mgr[i].mgmt \in BoundPorts \ ext

\* GET http://localhost:<management_port>/health/ready answers 200.
health_ok(i) == serving(mgr[i].mgmt)

\* What requests.get(url, timeout=5) on the health endpoint comes to: the
\* status of the response, or the exception raised. A server that is bound
\* but has not finished starting answers 503; a killed server that still
\* holds the port answers nothing; a port nobody holds refuses.
health_probe(i) ==
    IF health_ok(i) THEN "200"
    ELSE IF \E q \in Pid : /\ proc[q].st = "alive" /\ proc[q].bound
                            /\ mgr[i].mgmt \in {proc[q].port, proc[q].mgmt}
                            /\ ~proc[q].kill
    THEN "503"
    ELSE IF mgr[i].mgmt \in BoundPorts THEN "Timeout"
    ELSE "ConnectionError"

\* The exceptions of requests.get: all are RequestExceptions.
RequestExceptions == {"ConnectionError", "Timeout"}

\* An except clause that catches nothing.
probe_error_escapes(outcome) == FALSE

\* "except requests.RequestException: pass"
probe_error_caught(outcome) == outcome \in RequestExceptions

\* One turn of wait_for_ready's first loop as start() runs it: the time
\* budget may be spent; a 200 ends the loop; a dead process raises.
start_wait_for_ready(t) ==
    /\ thr[t].pc = "start_health"
    /\ LET i == thr[t].self IN
       \E elapsed \in BOOLEAN :
         IF elapsed
         THEN start_failed(t, "KeycloakTimeoutError", "timeout")
         ELSE IF health_ok(i)
         THEN IF thr[t].realm
              THEN /\ thr' = [thr EXCEPT ![t].pc = "start_realm"]
                   /\ UNCHANGED <<lock, mgr, proc>>
              ELSE /\ thr' = [thr EXCEPT ![t] = Ret("start", i, "none", "ready")]
                   /\ lock' = "free"
                   /\ UNCHANGED <<mgr, proc>>
         ELSE /\ ~is_running(i)
              /\ start_failed(t, "KeycloakTimeoutError", "died")
    /\ UNCHANGED <<instances, fs, ext>>

\* One turn of the second loop: the realm resource is polled on the same
\* clock.
start_wait_for_realm(t) ==
    /\ thr[t].pc = "start_realm"
    /\ LET i == thr[t].self IN
       \E elapsed \in BOOLEAN, imported \in BOOLEAN :
         IF elapsed
         THEN start_failed(t, "KeycloakTimeoutError", "timeout")
         ELSE IF serving(mgr[i].port) /\ imported
         THEN /\ thr' = [thr EXCEPT ![t] = Ret("start", i, "none", "ready")]
              /\ lock' = "free"
              /\ UNCHANGED <<mgr, proc>>
         ELSE /\ ~is_running(i)
              /\ start_failed(t, "KeycloakTimeoutError", "died")
    /\ UNCHANGED <<instances, fs, ext>>

\* ------------------------------------------------------ wait_for_ready
\* wait_for_ready(timeout, realm_name) called by the user: start_time is
\* read at entry. It takes no lock.
wait_for_ready(t, i, realm, timeout) ==
    /\ thr[t].pc = "idle"
    /\ mgr[i].made
    /\ thr' = [thr EXCEPT ![t] = [In("wait_health", "wait_for_ready", i, realm, FALSE)
                                    EXCEPT !.timeout = timeout]]
    /\ UNCHANGED <<instances, lock, mgr, proc, fs, ext>>

\* "while time.time() - start_time < timeout"
in_time(t) == thr[t].now - thr[t].start_time < thr[t].timeout

\* A raise that also kills the process, as the one in start() does.
wait_for_ready_raise_kills(t, i, path) ==
    /\ thr' = [thr EXCEPT ![t] =
                 [Ret("wait_for_ready", i, "KeycloakTimeoutError", path)
                    EXCEPT !.timeout = thr[t].timeout, !.now = thr[t].now,
                           !.seen = thr[t].seen]]
    /\ mgr' = [mgr EXCEPT ![i].process = 0]
    /\ proc' = IF Alive(mgr[i].process) THEN kill(mgr[i].process) ELSE proc

\* raise KeycloakTimeoutError(...): path stands for the message. Nothing
\* of the manager is touched.
wait_for_ready_raise(t, i, path) ==
    /\ thr' = [thr EXCEPT ![t] =
                 [Ret("wait_for_ready", i, "KeycloakTimeoutError", path)
                    EXCEPT !.timeout = thr[t].timeout, !.now = thr[t].now,
                           !.seen = thr[t].seen]]
    /\ mgr' = [mgr EXCEPT ![i].timed_out = @ \/ (path = "timeout" /\ is_running(i))]
    /\ UNCHANGED proc

\* A poll loop that does not look at the process.
wait_never_died(i) == FALSE

\* "if not self.is_running(): raise KeycloakTimeoutError(process terminated)"
wait_died(i) == ~is_running(i)

\* The second phase timing itself from its own beginning.
realm_fresh_start_time(t) == thr[t].now

\* The second loop compares with the start_time read at entry.
realm_start_time(t) == thr[t].start_time

\* One turn of the first loop: past the timeout the call raises "did not
\* become ready"; a 200 ends the loop (the GET may have taken a while); a
\* dead process raises "process terminated"; otherwise the turn ends after
\* the GET and sleep(interval).
wait_for_ready_health(t) ==
    /\ thr[t].pc = "wait_health"
    /\ LET i == thr[t].self IN
       IF ~in_time(t)
       THEN wait_for_ready_raise(t, i, "timeout")
       ELSE IF health_ok(i)
       THEN /\ \E d \in {0, 1} :
                 thr' = [thr EXCEPT ![t] =
                           IF thr[t].realm
                           THEN [@ EXCEPT !.pc = "wait_realm", !.now = @ + d,
                                          !.start_time = realm_start_time(t)]
                           ELSE [Ret("wait_for_ready", i, "none", "ready")
                                   EXCEPT !.seen = thr[t].seen]]
            /\ UNCHANGED <<mgr, proc>>
       ELSE IF /\ health_probe(i) \in RequestExceptions
               /\ ~probe_error_caught(health_probe(i))
       THEN /\ thr' = [thr EXCEPT ![t] =
                         Ret("wait_for_ready", i, health_probe(i), "probe")]
            /\ UNCHANGED <<mgr, proc>>
       ELSE IF wait_died(i)
       THEN wait_for_ready_raise(t, i, "died")
       ELSE /\ \E d \in {1, 2} :
                 thr' = [thr EXCEPT ![t].now = @ + d,
                                    ![t].seen = @ \cup {health_probe(i)}]
            /\ UNCHANGED <<mgr, proc>>
    /\ UNCHANGED <<instances, lock, fs, ext>>

\* One turn of the second loop, on the realm resource of the http port.
wait_for_ready_realm(t) ==
    /\ thr[t].pc = "wait_realm"
    /\ LET i == thr[t].self IN
       IF ~in_time(t)
       THEN wait_for_ready_raise(t, i, "realm_timeout")
       ELSE \E imported \in BOOLEAN :
            IF serving(mgr[i].port) /\ imported
            THEN /\ thr' = [thr EXCEPT ![t] = Ret("wait_for_ready", i, "none", "ready")]
                 /\ UNCHANGED <<mgr, proc>>
            ELSE IF wait_died(i)
            THEN wait_for_ready_raise(t, i, "died")
            ELSE /\ \E d \in {1, 2} : thr' = [thr EXCEPT ![t].now = @ + d]
                 /\ UNCHANGED <<mgr, proc>>
    /\ UNCHANGED <<instances, lock, fs, ext>>

\* ---------------------------------------------------------------- stop
\* _restore_directories(): each directory the snapshot holds replaces the
\* current one; then the snapshot is deleted. Without a snapshot nothing
\* is done.
restore_directories(f, b) ==
    IF ~b.set THEN f
    ELSE [f EXCEPT !.data = IF b.data.ex THEN b.data ELSE @,
                   !.conf = IF b.conf.ex THEN b.conf ELSE @]

\* The frame of thread t when the stop() it entered as op returns: stop()
\* and cleanup() return to their caller, _cleanup_on_exit goes on to the
\* registry.
stop_returns(t, i, op, path) ==
    IF op = "atexit" THEN [thr[t] EXCEPT !.pc = "atexit_remove", !.self = i]
    ELSE Ret(op, i, "none", path)

\* How far _restore_directories gets: to its end ("ok"), or to the
\* exception its except clause logs, raised while data/ is replaced
\* ("data": nothing is replaced), while conf/ is replaced ("conf": data/
\* is) or while the snapshot is removed ("snapshot": both are).
RestoreOutcomes(b) ==
    IF fs.faults /\ b.set THEN {"ok", "data", "conf", "snapshot"} ELSE {"ok"}

restore_reached(f, b, r) ==
    CASE r = "data" -> f
      [] r = "conf" -> [f EXCEPT !.data = IF b.data.ex THEN b.data ELSE @]
      [] OTHER      -> restore_directories(f, b)

\* A restore that forgets the snapshot whether or not it got to its end.
restore_always_clears(b, r) == NoBackup

\* "self._backup_dir = None" is the last statement of the try block: the
\* snapshot and the reference to it go only when nothing was raised.
restore_clears(b, r) == IF r = "ok" THEN NoBackup ELSE b

\* A finally clause that keeps the process handle when a step has raised.
handle_kept_on_error(i, failed) == IF failed = {} THEN 0 ELSE mgr[i].process

\* "finally: self.process = None"
handle_cleared(i, failed) == 0

\* The finally clause of stop(): the handle and the reader are dropped, the
\* import document is unlinked if it exists (a failure is logged), the
\* snapshot is restored (a failure is logged). failed0 holds what was
\* raised before the clause.
stop_finally(t, i, op, path, failed0) ==
    \E unlink_ok \in (IF fs.faults THEN BOOLEAN ELSE {TRUE}),
       r \in RestoreOutcomes(mgr[i].backup) :
    LET rf == mgr[i].realm_file
        on_disk == rf # 0 /\ RealmFile(rf) \in fs.data.files
        gone == on_disk /\ unlink_ok
        f1 == IF gone THEN [fs EXCEPT !.data = DelFile(@, RealmFile(rf))] ELSE fs
        failed == failed0 \cup (IF on_disk /\ ~unlink_ok THEN {"unlink"} ELSE {})
                          \cup (IF r # "ok" THEN {"restore"} ELSE {})
    IN  /\ fs' = restore_reached(f1, mgr[i].backup, r)
        /\ mgr' = [mgr EXCEPT ![i].process = handle_cleared(i, failed),
                              ![i].out_thread = FALSE,
                              ![i].realm_file = IF gone THEN 0 ELSE @,
                              ![i].backup = restore_clears(@, r),
                              ![i].fresh = FALSE,
                              ![i].restore_failed = (r # "ok"),
                              ![i].pre = NoBackup]
        /\ thr' = [thr EXCEPT ![t] = [stop_returns(t, i, op, path) EXCEPT !.failed = failed]]
        /\ lock' = "free"

\* The early return of stop() placed inside the try: the finally clause
\* runs all the same.
stop_not_running_cleans(t, i, op) ==
    /\ stop_finally(t, i, op, "noop", {})
    /\ UNCHANGED proc

\* The early returns of stop(): nothing is touched.
stop_not_running(t, i, op) ==
    /\ thr' = [thr EXCEPT ![t] = stop_returns(t, i, op, "noop")]
    /\ UNCHANGED <<lock, proc, mgr, fs>>

\* The body of stop() entered as op, from taking the lock to
\* process.terminate(): a no-op unless running. A terminate() that raises
\* is logged and the finally clause runs with the process as it is.
stop_enter(t, i, op) ==
    /\ lock_free
    /\ mgr[i].made
    /\ IF ~is_running(i) \/ mgr[i].process = 0
       THEN stop_not_running(t, i, op)
       ELSE \E signalled \in (IF fs.faults THEN BOOLEAN ELSE {TRUE}) :
            IF signalled
            THEN /\ proc' = terminate(mgr[i].process)
                 /\ thr' = [thr EXCEPT ![t] = In("stop_wait", op, i, FALSE, FALSE)]
                 /\ lock' = t
                 /\ mgr' = [mgr EXCEPT ![i].cycled = TRUE]
                 /\ UNCHANGED fs
            ELSE /\ stop_finally(t, i, op, "error", {"terminate"})
                 /\ UNCHANGED proc
    /\ UNCHANGED <<instances, ext>>

\* stop() called by the user.
stop(t, i) ==
    /\ thr[t].pc = "idle"
    /\ stop_enter(t, i, "stop")

\* A cleanup() that leaves the server alone.
cleanup_without_stop(t, i) ==
    /\ mgr[i].made
    /\ thr' = [thr EXCEPT ![t] = Ret("cleanup", i, "none", "noop")]
    /\ UNCHANGED <<instances, lock, mgr, proc, fs, ext>>

\* cleanup(): self.stop(), then a log line; nothing is deleted.
cleanup_stop(t, i) == stop_enter(t, i, "cleanup")

cleanup(t, i) ==
    /\ thr[t].pc = "idle"
    /\ cleanup_stop(t, i)

\* process.wait(timeout) ends: the process has exited, or the timeout
\* expired with the process alive and it is killed. A kill() that raises
\* is logged and the finally clause runs with the process as it is.
stop_wait(t) ==
    /\ thr[t].pc = "stop_wait"
    /\ LET q == mgr[thr[t].self].process IN
       IF proc[q].st # "alive"
       THEN /\ stop_finally(t, thr[t].self, thr[t].op, "graceful", {})
            /\ UNCHANGED proc
       ELSE \E signalled \in (IF fs.faults THEN BOOLEAN ELSE {TRUE}) :
            IF signalled
            THEN /\ proc' = kill(q)
                 /\ thr' = [thr EXCEPT ![t].pc = "stop_kill"]
                 /\ UNCHANGED <<lock, mgr, fs>>
            ELSE /\ stop_finally(t, thr[t].self, thr[t].op, "error", {"kill"})
                 /\ UNCHANGED proc
    /\ UNCHANGED <<instances, ext>>

\* process.wait() after kill() returns once the process is dead.
stop_killed(t) ==
    /\ thr[t].pc = "stop_kill"
    /\ proc[mgr[thr[t].self].process].st # "alive"
    /\ stop_finally(t, thr[t].self, thr[t].op, "forced", {})
    /\ UNCHANGED <<instances, proc, ext>>

\* The caller has seen the outcome of its call and goes on.
Return(t) ==
    /\ thr[t].pc = "ret"
    /\ thr' = [thr EXCEPT ![t] = Idle]
    /\ UNCHANGED <<instances, lock, mgr, proc, fs, ext>>

\* ------------------------------------------------------- the registry
\* get_running_instances_count(): the registered instances found running.
\* A count of the registry entries, running or not.
registered_count == Len(instances)

get_running_instances_count ==
    Cardinality({j \in 1..Len(instances) : is_running(instances[j])})

\* get_running_instances_count() called by thread t: the count is taken
\* under the class lock, "with cls._lock".
get_running_instances_count_call(t) ==
    /\ thr[t].pc = "idle"
    /\ lock_free
    /\ thr' = [thr EXCEPT ![t] =
                 [Ret("count", 0, "none", "counted")
                    EXCEPT !.count = get_running_instances_count]]
    /\ UNCHANGED <<instances, lock, mgr, proc, fs, ext>>

\* stop_all_instances(): under the lock, stop() is called on each
\* registered instance found running. stop() takes the lock that
\* stop_all_instances is holding, so at the first running instance the
\* thread blocks for good; with nothing running the call returns.
stop_all_instances(t) ==
    /\ thr[t].pc = "idle"
    /\ lock_free
    /\ IF get_running_instances_count > 0
       THEN /\ lock' = t
            /\ thr' = [thr EXCEPT ![t] = In("stop_all_blocked", "stop_all", 0, FALSE, FALSE)]
       ELSE /\ thr' = [thr EXCEPT ![t] = Ret("stop_all", 0, "none", "noop")]
            /\ UNCHANGED lock
    /\ UNCHANGED <<instances, mgr, proc, fs, ext>>

\* ---------------------------------------------------- interpreter exit
\* The handler atexit runs next: the last one registered and not yet run.
NextHandler == CHOOSE i \in Inst : mgr[i].atexit /\ \A j \in Inst : mgr[j].atexit => j <= i

\* Where the exiting thread stands once the handlers m still holds are
\* known: at the next handler, or past the last one.
AfterHandler(m) == IF \E i \in Inst : m[i].atexit THEN "atexit" ELSE "exited"

\* The interpreter exits from the only thread left: the handlers
\* registered with atexit are run.
Exit(t) ==
    /\ thr[t].pc = "idle"
    /\ \A u \in Threads \ {t} : thr[u].pc = "off"
    /\ thr' = [thr EXCEPT ![t] = In(AfterHandler(mgr), "atexit", 0, FALSE, FALSE)]
    /\ UNCHANGED <<instances, lock, mgr, proc, fs, ext>>

\* A handler that stops nothing.
exit_finds_none_running(i) == FALSE

\* "if self.is_running():" of _cleanup_on_exit
exit_finds_running(i) == is_running(i)

\* _cleanup_on_exit up to the end of its stop(): an instance found running
\* is stopped; stop() takes the lock itself.
cleanup_on_exit(t) ==
    /\ thr[t].pc = "atexit"
    /\ LET i == NextHandler IN
       IF exit_finds_running(i)
       THEN stop_enter(t, i, "atexit")
       ELSE /\ thr' = [thr EXCEPT ![t].pc = "atexit_remove", ![t].self = i]
            /\ UNCHANGED <<instances, lock, mgr, proc, fs, ext>>

\* list.remove(x): the list without the first of its entries equal to x.
list_remove(l, x) ==
    LET first == CHOOSE j \in 1..Len(l) :
                    l[j] = x /\ \A k \in 1..(j - 1) : l[k] # x
    IN  [j \in 1..(Len(l) - 1) |-> IF j < first THEN l[j] ELSE l[j + 1]]

\* _cleanup_on_exit: under the lock the instance is removed from the
\* registry if it is there; the handler has run.
cleanup_on_exit_remove(t) ==
    /\ thr[t].pc = "atexit_remove"
    /\ lock_free
    /\ LET i == thr[t].self
           m == [mgr EXCEPT ![i].atexit = FALSE]
       IN /\ instances' = IF \E j \in 1..Len(instances) : instances[j] = i
                         THEN list_remove(instances, i) ELSE instances
          /\ mgr' = m
          /\ thr' = [thr EXCEPT ![t] = In(AfterHandler(m), "atexit", 0, FALSE, FALSE)]
    /\ UNCHANGED <<lock, proc, fs, ext>>

\* ---------------------------------------------------- the environment
\* Process q once it has died. Its output pipe reaches end-of-file, which
\* ends _read_output, when the last process holding it is gone: at the
\* death of q unless q leaves child processes that inherited it.
Dead(q) ==
    IF fs.heirs
    THEN [DeadProc EXCEPT !.owner = proc[q].owner, !.reader = proc[q].reader]
    ELSE DeadProc

\* The processes the dead q left are gone: the pipe is at end-of-file and
\* the reader thread ends.
ReaderEnds(q) ==
    /\ proc[q].st = "dead" /\ proc[q].reader
    /\ proc' = [proc EXCEPT ![q].reader = FALSE]
    /\ UNCHANGED <<instances, lock, mgr, fs, ext, thr>>

\* The server binds its two ports; if either is taken it exits.
ChildBind(q) ==
    /\ proc[q].st = "alive" /\ ~proc[q].kill /\ ~proc[q].bound
    /\ proc' = [proc EXCEPT ![q] =
                  IF is_port_in_use(proc[q].port) \/ is_port_in_use(proc[q].mgmt)
                  THEN Dead(q) ELSE [@ EXCEPT !.bound = TRUE]]
    /\ UNCHANGED <<instances, lock, mgr, fs, ext, thr>>

\* The server finishes starting: its health endpoint answers 200.
ChildReady(q) ==
    /\ proc[q].st = "alive" /\ ~proc[q].kill /\ proc[q].bound /\ ~proc[q].ready
    /\ proc' = [proc EXCEPT ![q].ready = TRUE]
    /\ UNCHANGED <<instances, lock, mgr, fs, ext, thr>>

\* The server exits: by itself, or on the termination signal.
ChildExit(q) ==
    /\ proc[q].st = "alive" /\ ~proc[q].kill
    /\ proc' = [proc EXCEPT ![q] = Dead(q)]
    /\ UNCHANGED <<instances, lock, mgr, fs, ext, thr>>

\* A killed process dies; it does nothing else between the kill and its
\* death, but holds its ports until then.
ChildKilled(q) ==
    /\ proc[q].st = "alive" /\ proc[q].kill
    /\ proc' = [proc EXCEPT ![q] = Dead(q)]
    /\ UNCHANGED <<instances, lock, mgr, fs, ext, thr>>

\* The running server writes under data/ (creating it) or under conf/.
ChildWrite(q, into_data) ==
    /\ proc[q].st = "alive" /\ ~proc[q].kill
    /\ fs.dir
    /\ fs' = IF into_data THEN [fs EXCEPT !.data = AddFile(@, DbFile)]
                          ELSE [fs EXCEPT !.conf = AddFile(@, GenFile)]
    /\ fs' # fs
    /\ UNCHANGED <<instances, lock, mgr, proc, ext, thr>>

\* A process outside the model binds or releases a port.
ExtToggle(p) ==
    /\ IF p \in ext THEN ext' = ext \ {p}
       ELSE /\ ~is_port_in_use(p)
            /\ ext' = ext \cup {p}
    /\ UNCHANGED <<instances, lock, mgr, proc, fs, thr>>

\* The steps inside the calls, shared by every specification.
Steps ==
    \/ \E t \in Threads : Construct_register(t)
    \/ \E t \in Threads : start_prepare(t)
    \/ \E t \in Threads : start_spawn(t)
    \/ \E t \in Threads : start_settle(t)
    \/ \E t \in Threads : start_wait_for_ready(t)
    \/ \E t \in Threads, i \in Inst : stop(t, i)
    \/ \E t \in Threads : stop_wait(t)
    \/ \E t \in Threads : stop_killed(t)
    \/ \E t \in Threads : Return(t)

\* What the servers do.
Children ==
    \/ \E q \in Pid : ChildBind(q)
    \/ \E q \in Pid : ChildReady(q)
    \/ \E q \in Pid : ChildExit(q)
    \/ \E q \in Pid : ChildKilled(q)

\* One manager on one thread, from an empty install_dir: installed,
\* started with or without a realm_config, stopped, any number of times,
\* while its servers write under data/ and conf/. No process outside the
\* model touches the ports.
Next ==
    \/ Steps
    \/ Children
    \/ \E t \in Threads, e \in BOOLEAN : instances = <<>> /\ Construct(t, e)
    \/ \E t \in Threads, i \in Inst, o \in {JavaMissing, JavaGood} :
          download_and_install(t, i, o)
    \/ \E t \in Threads : download_and_install_extract(t)
    \/ \E t \in Threads, i \in Inst, r \in BOOLEAN, w \in BOOLEAN : start(t, i, r, w)
    \/ \E t \in Threads : start_wait_for_realm(t)
    \/ \E q \in Pid, d \in BOOLEAN : ChildWrite(q, d)

Spec == Init /\ [][Next]_vars

\* Up to NumInst managers over an installed distribution, started without
\* a realm_config, while processes outside the model bind and release
\* ports.
InitPorts ==
    /\ instances = <<>>
    /\ lock = "free"
    /\ mgr = [i \in Inst |-> NoMgr]
    /\ proc = [q \in Pid |-> NoProc]
    /\ fs = Extracted(NoInstall)
    /\ ext = {}
    /\ thr = [t \in Threads |-> IF t = "t1" THEN Idle ELSE Off]

NextPorts ==
    \/ Steps
    \/ Children
    \/ \E t \in Threads, e \in BOOLEAN : Construct(t, e)
    \/ \E t \in Threads, i \in Inst, w \in BOOLEAN : start(t, i, FALSE, w)
    \/ \E p \in ExtPorts : ExtToggle(p)

SpecPorts == InitPorts /\ [][NextPorts]_vars

\* One manager over an installed distribution, started with or without a
\* realm_config and stopped any number of times, under the scheduling
\* stop() relies on: the thread inside stop() keeps running, and a killed
\* process dies.
NextLive ==
    \/ Steps
    \/ Children
    \/ \E t \in Threads, e \in BOOLEAN : instances = <<>> /\ Construct(t, e)
    \/ \E t \in Threads, i \in Inst, r \in BOOLEAN, w \in BOOLEAN : start(t, i, r, w)
    \/ \E t \in Threads : start_wait_for_realm(t)

SpecLive ==
    /\ InitPorts /\ [][NextLive]_vars
    /\ \A t \in Threads : WF_vars(stop_wait(t)) /\ WF_vars(stop_killed(t))
    /\ \A q \in Pid : WF_vars(ChildKilled(q))

\* Two threads sharing up to NumInst managers with pinned ports over an
\* installed distribution: t1 constructs the managers, and either thread
\* starts (without the readiness wait) or stops any manager whose
\* constructor has returned.
InitConc ==
    /\ instances = <<>>
    /\ lock = "free"
    /\ mgr = [i \in Inst |-> NoMgr]
    /\ proc = [q \in Pid |-> NoProc]
    /\ fs = Extracted(NoInstall)
    /\ ext = {}
    /\ thr = [t \in Threads |-> Idle]

NextConc ==
    \/ \E t \in Threads : Construct_register(t)
    \/ \E t \in Threads : start_prepare(t)
    \/ \E t \in Threads : start_spawn(t)
    \/ \E t \in Threads : start_settle(t)
    \/ \E t \in Threads, i \in Inst : stop(t, i)
    \/ \E t \in Threads : stop_wait(t)
    \/ \E t \in Threads : stop_killed(t)
    \/ \E t \in Threads : Return(t)
    \/ \E q \in Pid : ChildBind(q)
    \/ \E q \in Pid : ChildExit(q)
    \/ \E q \in Pid : ChildKilled(q)
    \/ Construct("t1", TRUE)
    \/ \E t \in Threads, i \in Inst : start(t, i, FALSE, FALSE)

SpecConc == InitConc /\ [][NextConc]_vars

\* Up to NumInst managers constructed one after the other by one thread
\* over an installed distribution, started and stopped one by one or all
\* at once. A thread inside a call keeps running, a caller that got its
\* result goes on, and a killed process dies.
NextEvict ==
    \/ Steps
    \/ Children
    \/ \E t \in Threads, e \in BOOLEAN : Construct(t, e)
    \/ \E t \in Threads, i \in Inst, w \in BOOLEAN : start(t, i, FALSE, w)
    \/ \E t \in Threads : stop_all_instances(t)

SpecEvict ==
    /\ InitPorts /\ [][NextEvict]_vars
    /\ \A t \in Threads :
          /\ WF_vars(Construct_register(t))
          /\ WF_vars(start_prepare(t)) /\ WF_vars(start_spawn(t))
          /\ WF_vars(start_settle(t)) /\ WF_vars(start_wait_for_ready(t))
          /\ WF_vars(stop_wait(t)) /\ WF_vars(stop_killed(t))
          /\ WF_vars(Return(t))
    /\ \A q \in Pid : WF_vars(ChildKilled(q))

\* One manager over an installed distribution, started with or without
\* the readiness wait and stopped any number of times, while the caller
\* calls wait_for_ready itself, with or without a realm name, and a
\* process outside the model binds and releases the default http port.
NextWait ==
    \/ Steps
    \/ Children
    \/ \E t \in Threads, e \in BOOLEAN : instances = <<>> /\ Construct(t, e)
    \/ \E t \in Threads, i \in Inst, w \in BOOLEAN : start(t, i, FALSE, w)
    \/ \E t \in Threads, i \in Inst, r \in BOOLEAN, d \in 0..MaxTimeout :
          wait_for_ready(t, i, r, d)
    \/ \E t \in Threads : wait_for_ready_health(t)
    \/ \E t \in Threads : wait_for_ready_realm(t)
    \/ ExtToggle(DefaultPort)

SpecWait == InitPorts /\ [][NextWait]_vars

\* Up to NumInst auto-allocating managers constructed by one thread over
\* an installed distribution, started (with or without the readiness wait)
\* and cleaned up any number of times until
\* the interpreter exits and runs the handlers the constructors registered.
\* The exiting thread keeps running and a killed process dies.
NextExit ==
    \/ \E t \in Threads : Construct_register(t)
    \/ \E t \in Threads : start_prepare(t)
    \/ \E t \in Threads : start_spawn(t)
    \/ \E t \in Threads : start_settle(t)
    \/ \E t \in Threads : start_wait_for_ready(t)
    \/ \E t \in Threads : stop_wait(t)
    \/ \E t \in Threads : stop_killed(t)
    \/ \E t \in Threads : Return(t)
    \/ \E q \in Pid : ChildExit(q)
    \/ \E q \in Pid : ChildKilled(q)
    \/ \E t \in Threads : Construct(t, FALSE)
    \/ \E t \in Threads, i \in Inst, w \in BOOLEAN : start(t, i, FALSE, w)
    \/ \E t \in Threads, i \in Inst : cleanup(t, i)
    \/ \E t \in Threads : Exit(t)
    \/ \E t \in Threads : cleanup_on_exit(t)
    \/ \E t \in Threads : cleanup_on_exit_remove(t)

SpecExit ==
    /\ InitPorts /\ [][NextExit]_vars
    /\ \A t \in Threads :
          /\ WF_vars(stop_wait(t)) /\ WF_vars(stop_killed(t))
          /\ WF_vars(cleanup_on_exit(t)) /\ WF_vars(cleanup_on_exit_remove(t))
    /\ \A q \in Pid : WF_vars(ChildKilled(q))

\* One manager on one thread, from an empty install_dir, on machines with
\* any Java or none: the distribution is installed, any number of times.
NextJava ==
    \/ \E t \in Threads, e \in BOOLEAN : instances = <<>> /\ Construct(t, e)
    \/ \E t \in Threads : Construct_register(t)
    \/ \E t \in Threads, i \in Inst, o \in JavaOutputs : download_and_install(t, i, o)
    \/ \E t \in Threads : download_and_install_extract(t)
    \/ \E t \in Threads : Return(t)

SpecJava == Init /\ [][NextJava]_vars

\* One manager on one thread, from an empty install_dir, on a machine with
\* a fit Java: installs that may fail in the download or the extraction,
\* retried and followed by start() (with or without a realm_config,
\* without the readiness wait), any number of times.
NextRetry ==
    \/ \E t \in Threads : instances = <<>> /\ Construct(t, FALSE)
    \/ \E t \in Threads : Construct_register(t)
    \/ \E t \in Threads, i \in Inst : download_and_install(t, i, JavaGood)
    \/ \E t \in Threads : download_and_install_extract(t)
    \/ \E t \in Threads, i \in Inst, realm \in BOOLEAN : start(t, i, realm, FALSE)
    \/ \E t \in Threads : start_prepare(t)
    \/ \E t \in Threads : start_spawn(t)
    \/ \E t \in Threads : start_settle(t)
    \/ \E q \in Pid : ChildExit(q)
    \/ \E t \in Threads : Return(t)

SpecRetry == Init /\ [][NextRetry]_vars

\* One manager over an installed distribution, started with or without a
\* realm_config and the readiness wait, stopped and cleaned up any number
\* of times, while its servers write under data/ and conf/ and may exit
\* on their own at any time.
NextCrash ==
    \/ Steps
    \/ Children
    \/ \E t \in Threads : instances = <<>> /\ Construct(t, FALSE)
    \/ \E t \in Threads, i \in Inst, r \in BOOLEAN, w \in BOOLEAN : start(t, i, r, w)
    \/ \E t \in Threads : start_wait_for_realm(t)
    \/ \E t \in Threads, i \in Inst : cleanup(t, i)
    \/ \E q \in Pid, d \in BOOLEAN : ChildWrite(q, d)

SpecCrash == InitPorts /\ [][NextCrash]_vars

\* Up to NumInst managers constructed by one thread over an installed
\* distribution, started, stopped and cleaned up any number of times, with
\* stop_all_instances and get_running_instances_count called in between,
\* until the interpreter exits and runs the exit handlers; servers may
\* exit on their own.
NextRegistry ==
    \/ \E t \in Threads : Construct(t, FALSE)
    \/ \E t \in Threads : Construct_register(t)
    \/ \E t \in Threads, i \in Inst : start(t, i, FALSE, FALSE)
    \/ \E t \in Threads : start_prepare(t)
    \/ \E t \in Threads : start_spawn(t)
    \/ \E t \in Threads : start_settle(t)
    \/ \E t \in Threads, i \in Inst : stop(t, i)
    \/ \E t \in Threads : stop_wait(t)
    \/ \E t \in Threads : stop_killed(t)
    \/ \E t \in Threads, i \in Inst : cleanup(t, i)
    \/ \E t \in Threads : stop_all_instances(t)
    \/ \E t \in Threads : get_running_instances_count_call(t)
    \/ \E t \in Threads : Exit(t)
    \/ \E t \in Threads : cleanup_on_exit(t)
    \/ \E t \in Threads : cleanup_on_exit_remove(t)
    \/ \E t \in Threads : Return(t)
    \/ \E q \in Pid : ChildExit(q)
    \/ \E q \in Pid : ChildKilled(q)

SpecRegistry == InitPorts /\ [][NextRegistry]_vars

\* ------------------------------------------------- keycloak_user fixture
\* The ids the server gives to the users it creates.
UserIds == 1..MaxCreated

\* What keycloak_client.delete_user(user_id) comes to: it returns, or the
\* request fails and it raises KeycloakAPIError.
DeleteOutcomes == {"deleted", "KeycloakAPIError"}

\* A teardown loop without its try/except.
delete_error_escapes(outcome) == FALSE

\* "except Exception as e: logger.warning(...)": KeycloakAPIError is an
\* Exception.
delete_error_caught(outcome) == outcome = "KeycloakAPIError"

\* The fixture is set up for a test: created_users = [] and the factory is
\* yielded.
keycloak_user(t) ==
    /\ thr[t].pc = "idle"
    /\ thr' = [thr EXCEPT ![t] = In("user_test", "keycloak_user", 0, FALSE, FALSE)]
    /\ UNCHANGED <<instances, lock, mgr, proc, fs, ext>>

\* The test calls the factory: create_user returns the id of the new user,
\* which is appended to created_users and returned; or create_user raises,
\* nothing is appended and the test fails with the error.
create_user(t) ==
    /\ thr[t].pc = "user_test"
    /\ \/ \E id \in UserIds :
            /\ \A k \in 1..Len(thr[t].created_users) : thr[t].created_users[k] # id
            /\ thr' = [thr EXCEPT ![t].created_users = Append(@, id)]
       \/ thr' = [thr EXCEPT ![t].pc = "user_teardown", ![t].path = "test_failed"]
    /\ UNCHANGED <<instances, lock, mgr, proc, fs, ext>>

\* The test ends, passing or failing: the generator is resumed after the
\* yield.
test_ends(t) ==
    /\ thr[t].pc = "user_test"
    /\ \E outcome \in {"test_passed", "test_failed"} :
         thr' = [thr EXCEPT ![t].pc = "user_teardown", ![t].path = outcome]
    /\ UNCHANGED <<instances, lock, mgr, proc, fs, ext>>

\* One turn of "for user_id in created_users": delete_user is called with
\* the next id; an error it raises is caught and logged, or ends the
\* teardown. Past the last id the teardown ends.
keycloak_user_teardown(t) ==
    /\ thr[t].pc = "user_teardown"
    /\ LET n == Len(thr[t].deletions) + 1 IN
       IF n > Len(thr[t].created_users)
       THEN thr' = [thr EXCEPT ![t].pc = "user_done"]
       ELSE \E outcome \in DeleteOutcomes :
              LET id == thr[t].created_users[n] IN
              IF outcome = "deleted"
              THEN thr' = [thr EXCEPT ![t].deletions = Append(@, id)]
              ELSE IF delete_error_caught(outcome)
              THEN thr' = [thr EXCEPT ![t].deletions = Append(@, id),
                                      ![t].undeleted = @ \cup {id}]
              ELSE thr' = [thr EXCEPT ![t].deletions = Append(@, id),
                                      ![t].undeleted = @ \cup {id},
                                      ![t].pc = "user_done", ![t].exc = outcome]
    /\ UNCHANGED <<instances, lock, mgr, proc, fs, ext>>

\* The next test begins.
next_test(t) ==
    /\ thr[t].pc = "user_done"
    /\ thr' = [thr EXCEPT ![t] = Idle]
    /\ UNCHANGED <<instances, lock, mgr, proc, fs, ext>>

\* Tests run one after another, each with its own keycloak_user fixture:
\* a test creates up to MaxCreated users and passes or fails; any of the
\* deletions of the teardown may fail.
NextUser ==
    \/ \E t \in Threads : keycloak_user(t)
    \/ \E t \in Threads : create_user(t)
    \/ \E t \in Threads : test_ends(t)
    \/ \E t \in Threads : keycloak_user_teardown(t)
    \/ \E t \in Threads : next_test(t)

SpecUser == InitPorts /\ [][NextUser]_vars

\* One manager over an installed distribution on a machine where the
\* system calls of stop() may fail: started with or without a realm_config
\* (without the readiness wait) and stopped any number of times, while its
\* servers write under data/ and conf/.
InitFaults ==
    /\ instances = <<>>
    /\ lock = "free"
    /\ mgr = [i \in Inst |-> NoMgr]
    /\ proc = [q \in Pid |-> NoProc]
    /\ fs = [Extracted(NoInstall) EXCEPT !.faults = TRUE]
    /\ ext = {}
    /\ thr = [t \in Threads |-> IF t = "t1" THEN Idle ELSE Off]

NextFaults ==
    \/ \E t \in Threads : instances = <<>> /\ Construct(t, FALSE)
    \/ \E t \in Threads : Construct_register(t)
    \/ \E t \in Threads, i \in Inst, r \in BOOLEAN : start(t, i, r, FALSE)
    \/ \E t \in Threads : start_prepare(t)
    \/ \E t \in Threads : start_spawn(t)
    \/ \E t \in Threads : start_settle(t)
    \/ \E t \in Threads, i \in Inst : stop(t, i)
    \/ \E t \in Threads : stop_wait(t)
    \/ \E t \in Threads : stop_killed(t)
    \/ \E t \in Threads : Return(t)
    \/ \E q \in Pid : ChildExit(q)
    \/ \E q \in Pid : ChildKilled(q)
    \/ \E q \in Pid, d \in BOOLEAN : ChildWrite(q, d)

SpecFaults == InitFaults /\ [][NextFaults]_vars

\* Up to NumInst managers without a data_dir argument constructed by one
\* thread over an installed distribution, back-to-back within one second
\* of the wall clock or later, started (without the readiness wait) and
\* stopped any number of times.
NextStamp ==
    \/ \E t \in Threads, d \in {0, 1} : Construct_after(t, FALSE, d)
    \/ \E t \in Threads : Construct_register(t)
    \/ \E t \in Threads, i \in Inst : start(t, i, FALSE, FALSE)
    \/ \E t \in Threads : start_prepare(t)
    \/ \E t \in Threads : start_spawn(t)
    \/ \E t \in Threads : start_settle(t)
    \/ \E t \in Threads, i \in Inst : stop(t, i)
    \/ \E t \in Threads : stop_wait(t)
    \/ \E t \in Threads : stop_killed(t)
    \/ \E t \in Threads : Return(t)
    \/ \E q \in Pid : ChildExit(q)
    \/ \E q \in Pid : ChildKilled(q)

SpecStamp == InitPorts /\ [][NextStamp]_vars

\* A caller holding any realm configuration of up to MaxUsers users and
\* MaxClients clients converts it to the import document.
InitRealm ==
    /\ instances = <<>>
    /\ lock = "free"
    /\ mgr = [i \in Inst |-> NoMgr]
    /\ proc = [q \in Pid |-> NoProc]
    /\ fs = NoInstall
    /\ ext = {}
    /\ \E cfg \in RealmConfigs :
          thr = [t \in Threads |-> IF t = "t1" THEN [Idle EXCEPT !.cfg = cfg] ELSE Off]

NextRealm ==
    \/ \E t \in Threads : to_keycloak_json_call(t)
    \/ \E t \in Threads : Return(t)

SpecRealm == InitRealm /\ [][NextRealm]_vars

\* Up to NumInst managers over an installed distribution, constructed with
\* or without a port and a management_port, started without a realm_config
\* and stopped any number of times, while a process outside the model binds
\* and releases the default http port. The servers end only when stopped.
NextPin ==
    \/ \E t \in Threads : Construct_register(t)
    \/ \E t \in Threads : start_prepare(t)
    \/ \E t \in Threads : start_spawn(t)
    \/ \E t \in Threads : start_settle(t)
    \/ \E t \in Threads, i \in Inst : stop(t, i)
    \/ \E t \in Threads : stop_wait(t)
    \/ \E t \in Threads : stop_killed(t)
    \/ \E t \in Threads : Return(t)
    \/ \E q \in Pid : ChildKilled(q)
    \/ \E t \in Threads,
          port \in {None, Some(DefaultPort + 1)},
          management_port \in {None, Some(DefaultPort + MgmtOffset + 1)} :
          Construct_pinned(t, port, management_port)
    \/ \E t \in Threads, i \in Inst : start(t, i, FALSE, FALSE)
    \/ ExtToggle(DefaultPort)

SpecPin == InitPorts /\ [][NextPin]_vars

\* Two threads over an installed distribution: one constructs up to
\* NumInst managers; both start them, with or without the readiness wait,
\* stop them and count the running ones.
NextLock ==
    \/ \E t \in Threads : Construct_register(t)
    \/ \E t \in Threads : start_prepare(t)
    \/ \E t \in Threads : start_spawn(t)
    \/ \E t \in Threads : start_settle(t)
    \/ \E t \in Threads : start_wait_for_ready(t)
    \/ \E t \in Threads, i \in Inst : stop(t, i)
    \/ \E t \in Threads : stop_wait(t)
    \/ \E t \in Threads : stop_killed(t)
    \/ \E t \in Threads : Return(t)
    \/ \E q \in Pid : ChildExit(q)
    \/ \E q \in Pid : ChildKilled(q)
    \/ Construct("t1", FALSE)
    \/ \E t \in Threads, i \in Inst, w \in BOOLEAN : start(t, i, FALSE, w)
    \/ \E t \in Threads : get_running_instances_count_call(t)

SpecLock == InitConc /\ [][NextLock]_vars

\* One manager over an installed distribution whose launcher leaves child
\* processes holding its output pipe; the manager is started, with or
\* without the readiness wait, and stopped any number of times.
InitReader ==
    /\ instances = <<>>
    /\ lock = "free"
    /\ mgr = [i \in Inst |-> NoMgr]
    /\ proc = [q \in Pid |-> NoProc]
    /\ fs = [Extracted(NoInstall) EXCEPT !.heirs = TRUE]
    /\ ext = {}
    /\ thr = [t \in Threads |-> IF t = "t1" THEN Idle ELSE Off]

NextReader ==
    \/ \E t \in Threads : Construct_register(t)
    \/ \E t \in Threads : start_prepare(t)
    \/ \E t \in Threads : start_spawn(t)
    \/ \E t \in Threads : start_settle(t)
    \/ \E t \in Threads : start_wait_for_ready(t)
    \/ \E t \in Threads, i \in Inst : stop(t, i)
    \/ \E t \in Threads : stop_wait(t)
    \/ \E t \in Threads : stop_killed(t)
    \/ \E t \in Threads : Return(t)
    \/ \E q \in Pid : ChildExit(q)
    \/ \E q \in Pid : ChildKilled(q)
    \/ \E q \in Pid : ReaderEnds(q)
    \/ \E t \in Threads : instances = <<>> /\ Construct(t, FALSE)
    \/ \E t \in Threads, i \in Inst, w \in BOOLEAN : start(t, i, FALSE, w)

SpecReader == InitReader /\ [][NextReader]_vars

\* The ports a search may be asked to start from: the default one, and
\* the first one whose management port is no port number.
StartPorts == {DefaultPort, MaxPort - MgmtOffset + 1}

\* Ports held around a start port: a few single ones, all the http ports
\* of the search, all its management ports, or of each pair one.
NearPorts(s) == {s, s + 1, s + MgmtOffset, s + 1 + MgmtOffset}
PortBlocks(s) ==
    {{},
     s..(s + MaxAttempts - 1),
     (s + MgmtOffset)..(s + MgmtOffset + MaxAttempts - 1),
     {s + k + (IF k % 2 = 0 THEN 0 ELSE MgmtOffset) : k \in 0..(MaxAttempts - 1)},
     s..(s + MaxAttempts - 2)}

\* _find_available_ports called on a machine where processes outside the
\* model hold some of the ports.
InitFind ==
    /\ instances = <<>>
    /\ lock = "free"
    /\ mgr = [i \in Inst |-> NoMgr]
    /\ proc = [q \in Pid |-> NoProc]
    /\ fs = NoInstall
    /\ \E near \in SUBSET (UNION {NearPorts(s) : s \in StartPorts}),
          block \in PortBlocks(DefaultPort) :
          ext = {p \in near \cup block : ~bind_overflows(p)}
    /\ thr = [t \in Threads |-> IF t = "t1" THEN Idle ELSE Off]

NextFind ==
    \/ \E t \in Threads, s \in StartPorts : find_available_ports_call(t, s)
    \/ \E t \in Threads : Return(t)

SpecFind == InitFind /\ [][NextFind]_vars

\* ================================================================ claims
\* Thread t takes the step that calls op on manager i.
Calling(t, op, i) == thr[t].pc = "idle" /\ thr'[t].op = op /\ thr'[t].self = i
\* Thread t is at the moment op on manager i returns or raises.
AtReturn(t, op, i) == thr[t].pc = "ret" /\ thr[t].op = op /\ thr[t].self = i
\* Manager i holds a handle on a live process.
Running(i) == mgr[i].process # 0 /\ proc[mgr[i].process].st = "alive"

\* C1: start() on a manager whose process is running returns at once without
\* raising and spawns nothing: the process handle, the ports, the import
\* file, the snapshot reference, the processes and the file system are all
\* as before.
C1_StartWhileRunningIsNoop ==
    [][\A t \in Threads, i \in Inst :
         (Calling(t, "start", i) /\ Running(i)) =>
            /\ thr'[t].pc = "ret" /\ thr'[t].exc = "none"
            /\ mgr' = mgr /\ proc' = proc /\ fs' = fs /\ lock' = "free"]_vars

C1_Witness ==
    \E t \in Threads, i \in Inst :
        AtReturn(t, "start", i) /\ thr[t].path = "noop" /\ thr[t].exc = "none" /\ Running(i)

\* C2: stop() on a manager that holds no process (never started, or already
\* stopped) returns without raising and changes nothing; the manager is not
\* running afterwards.
C2_StopWhenNotRunningIsNoop ==
    [][\A t \in Threads, i \in Inst :
         (Calling(t, "stop", i) /\ ~Running(i)) =>
            /\ thr'[t].pc = "ret" /\ thr'[t].exc = "none"
            /\ mgr' = mgr /\ proc' = proc /\ fs' = fs /\ lock' = "free"
            /\ ~Running(i)']_vars

\* A second stop() returns on a manager a completed stop() has left clean.
C2_Witness ==
    \E t \in Threads, i \in Inst :
        /\ AtReturn(t, "stop", i) /\ thr[t].path = "noop" /\ thr[t].exc = "none"
        /\ mgr[i].cycled /\ mgr[i].process = 0

\* C3: start() with no distribution directory raises KeycloakStartError
\* ("not installed") at once: the ports are not reselected, nothing is
\* written, no process is spawned, the manager is not running.
C3_StartNotInstalledFailsFast ==
    [][\A t \in Threads, i \in Inst :
         (Calling(t, "start", i) /\ ~fs.dir) =>
            /\ thr'[t].pc = "ret" /\ thr'[t].exc = "KeycloakStartError"
            /\ thr'[t].path = "not_installed"
            /\ mgr' = mgr /\ proc' = proc /\ fs' = fs /\ lock' = "free"
            /\ ~Running(i)']_vars

C3_Witness ==
    \E t \in Threads, i \in Inst :
        /\ AtReturn(t, "start", i) /\ thr[t].exc = "KeycloakStartError"
        /\ thr[t].path = "not_installed" /\ ~fs.dir /\ mgr[i].process = 0

\* C4: download_and_install() with the launcher already in the distribution
\* directory downloads nothing, extracts nothing and leaves the file system
\* as it is; it returns at once (or raises for a missing Java).
C4_InstallIsIdempotent ==
    [][\A t \in Threads, i \in Inst :
         (Calling(t, "install", i) /\ fs.dir /\ fs.launcher) =>
            /\ thr'[t].pc = "ret" /\ thr'[t].exc \in {"none", "JavaNotFoundError"}
            /\ fs' = fs /\ mgr' = mgr /\ proc' = proc]_vars

\* A call returns on a distribution an earlier call installed.
C4_Witness ==
    \E t \in Threads, i \in Inst :
        /\ AtReturn(t, "install", i) /\ thr[t].path = "already" /\ thr[t].exc = "none"
        /\ fs.dir /\ fs.launcher /\ ~fs.zip
\* C5: over any number of start(wait_for_ready=True) / stop() cycles of one
\* installed manager: a start that returns from its readiness wait leaves
\* the manager running with the health endpoint answering 200; every stop
\* leaves it not running, with no process handle and no snapshot; a start
\* on a stopped, installed manager whose ports are free goes on to spawn,
\* and every spawn creates a process that did not exist before.
C5_StartStopCycles ==
    [][\A t \in Threads, i \in Inst :
         /\ (/\ thr[t].pc \in {"start_health", "start_realm"} /\ thr[t].self = i
             /\ thr'[t].pc = "ret" /\ thr'[t].exc = "none")
               => (Running(i)' /\ proc'[mgr'[i].process].ready /\ lock' = "free")
         /\ (thr[t].pc # "ret" /\ thr'[t].pc = "ret" /\ thr'[t].op = "stop" /\ thr'[t].self = i)
               => (~Running(i)' /\ lock' = "free")
         /\ (thr[t].pc \in {"stop_wait", "stop_kill"} /\ thr[t].self = i /\ thr'[t].pc = "ret")
               => (mgr'[i].process = 0 /\ ~mgr'[i].backup.set /\ fs'.dir)
         /\ (/\ Calling(t, "start", i) /\ ~Running(i) /\ fs.dir
             /\ mgr[i].port \notin BoundPorts /\ mgr[i].mgmt \notin BoundPorts)
               => (thr'[t].pc = "start_prepare" /\ lock' = t)
         /\ (thr[t].pc = "start_spawn" /\ thr[t].self = i /\ thr'[t].pc = "start_settle")
               => (/\ mgr'[i].process # 0
                   /\ proc[mgr'[i].process].st = "none"
                   /\ proc'[mgr'[i].process].st = "alive")]_vars

\* A start has returned ready on a manager that a stop() stopped before.
C5_Witness ==
    \E t \in Threads, i \in Inst :
        /\ AtReturn(t, "start", i) /\ thr[t].path = "ready" /\ thr[t].exc = "none"
        /\ mgr[i].cycled /\ Running(i) /\ mgr[i].process > 1

\* C6: stop() on a running manager sends the termination signal first and
\* the kill only after the wait has ended with the process still alive; it
\* returns only with the process dead and the handle cleared; and once it
\* has sent the termination signal it does return, also when the process
\* ignores that signal.
C6_StopEscalates ==
    /\ [][\A t \in Threads :
            LET i == thr[t].self
                q == mgr[i].process
            IN  thr[t].op = "stop" /\ thr[t].pc # "ret" =>
                  /\ q # 0 /\ (proc[q].st = "alive" => proc[q].term)
                  /\ (~proc[q].kill /\ proc'[q].kill)
                        => (thr[t].pc = "stop_wait" /\ proc[q].st = "alive")
                  /\ thr'[t].pc = "ret"
                        => (proc[q].st # "alive" /\ mgr'[i].process = 0 /\ lock' = "free")
                  /\ (thr'[t].pc = "ret" /\ thr'[t].path = "forced")
                        => thr[t].pc = "stop_kill"]_vars
    /\ \A t \in Threads :
          (thr[t].pc \in {"stop_wait", "stop_kill"}) ~> (thr[t].pc = "ret" /\ thr[t].op = "stop")

\* stop() has returned after the forced kill.
C6_Witness ==
    \E t \in Threads, i \in Inst :
        /\ AtReturn(t, "stop", i) /\ thr[t].path = "forced" /\ thr[t].exc = "none"
        /\ mgr[i].process = 0
\* C7: start(wait_for_ready=True) reports its two startup failures with
\* different error kinds: a child found exited after the settle delay
\* raises KeycloakStartError, a child that lives but is not ready within
\* the timeout raises KeycloakTimeoutError.
C7_StartFailureKinds ==
    \A t \in Threads, i \in Inst :
        AtReturn(t, "start", i) =>
            /\ thr[t].path = "exited" => thr[t].exc = "KeycloakStartError"
            /\ thr[t].path = "timeout" => thr[t].exc = "KeycloakTimeoutError"

\* C8: when stop() returns after stopping a manager that holds an import
\* document written by its start, data/import/realm-<port>.json is not on
\* disk, whether the process exited on the signal or was killed.
C8_ImportFileRemoved ==
    [][\A t \in Threads :
         LET i == thr[t].self IN
         (/\ thr[t].pc \in {"stop_wait", "stop_kill"} /\ thr'[t].pc = "ret"
          /\ mgr[i].realm_file # 0)
            => RealmFile(mgr[i].realm_file) \notin fs'.data.files]_vars

\* C9: when stop() returns after stopping a started manager, data/ and
\* conf/ are each as start() found them (absent if absent then), whatever
\* the server wrote meanwhile.
C9_RestoreRoundTrip ==
    [][\A t \in Threads :
         LET i == thr[t].self IN
         (/\ thr[t].pc \in {"stop_wait", "stop_kill"} /\ thr'[t].pc = "ret"
          /\ mgr[i].pre.set)
            => (fs'.data = mgr[i].pre.data /\ fs'.conf = mgr[i].pre.conf)]_vars

\* C10: auto-allocating managers that have been started and are running at
\* the same time use pairwise disjoint ports.
C10_PortsDisjoint ==
    \A i, j \in Inst :
        (/\ i # j /\ ~mgr[i].explicit /\ ~mgr[j].explicit
         /\ Running(i) /\ Running(j)
         /\ \A t \in Threads : thr[t].pc \in {"idle", "ret", "off"})
            => {mgr[i].port, mgr[i].mgmt} \cap {mgr[j].port, mgr[j].mgmt} = {}

\* C11: start() on a manager with pinned ports, with the http or the
\* management port not bindable, raises KeycloakStartError at once: port and
\* management_port keep their values, no import document and no snapshot is
\* written, no process is spawned.
C11_PinnedPortsFailFast ==
    [][\A t \in Threads, i \in Inst :
         (/\ Calling(t, "start", i) /\ ~Running(i) /\ fs.dir /\ mgr[i].explicit
          /\ (mgr[i].port \in BoundPorts \/ mgr[i].mgmt \in BoundPorts)) =>
            /\ thr'[t].pc = "ret" /\ thr'[t].exc = "KeycloakStartError"
            /\ thr'[t].path = "port_in_use"
            /\ mgr' = mgr /\ proc' = proc /\ fs' = fs /\ lock' = "free"]_vars

\* The pinned port was held by the server of an earlier, failed start.
C11_Witness ==
    \E t \in Threads, i \in Inst :
        /\ AtReturn(t, "start", i) /\ thr[t].path = "port_in_use"
        /\ thr[t].exc = "KeycloakStartError"
        /\ mgr[i].explicit /\ mgr[i].port = DefaultPort /\ mgr[i].process = 0
        /\ mgr[i].port \in BoundPorts

\* C12: when the constructor of a new manager returns, every instance
\* registered before is not running.
C12_ConstructorEvicts ==
    [][\A t \in Threads :
         (thr[t].op = "init" /\ thr[t].pc # "ret" /\ thr'[t].pc = "ret") =>
            \A j \in 1..Len(instances) : ~Running(instances[j])']_vars

\* C13: a constructor call always completes, also when registered
\* instances are running: once begun, it returns.
C13_ConstructorCompletes ==
    \A t \in Threads :
        (thr[t].op = "init" /\ thr[t].pc # "ret") ~> (thr[t].op = "init" /\ thr[t].pc = "ret")

\* C14: stop_all_instances() terminates, and when it has returned no
\* registered instance is running: get_running_instances_count() is 0.
C14_StopAllStopsAll ==
    \A t \in Threads :
        (thr[t].op = "stop_all" /\ thr[t].pc # "ret")
            ~> (thr[t].op = "stop_all" /\ thr[t].pc = "ret" /\ get_running_instances_count = 0)

\* Thread t is inside the locked part of a start() or a stop().
InTransition(t) ==
    thr[t].pc \in {"start_prepare", "start_spawn", "start_settle", "start_health",
                   "start_realm", "stop_wait", "stop_kill"}

\* C15: start() and stop() from concurrent callers do not race. The thread
\* inside a start or a stop holds the lock and no other thread is inside
\* one; a start or stop call makes its is_running check only while no other
\* call is in progress, so it acts entirely before or after it; and a child
\* is spawned for a manager only while that manager is not running, so two
\* concurrent start() calls spawn one child.
C15_StartStopSerialized ==
    /\ [](\A t \in Threads : InTransition(t) =>
              (lock = t /\ \A u \in Threads \ {t} : ~InTransition(u)))
    /\ [][\A t \in Threads, i \in Inst :
            /\ (Calling(t, "start", i) \/ Calling(t, "stop", i))
                  => \A u \in Threads \ {t} : ~InTransition(u)
            /\ (thr[t].pc = "start_spawn" /\ thr[t].self = i /\ thr'[t].pc = "start_settle")
                  => (~Running(i) /\ Running(i)'
                      /\ \A q \in Pid : (proc[q].st = "alive" /\ ~proc[q].kill)
                                            => proc[q].owner # i)]_vars

\* Both threads have called start() on the same manager, the second while
\* the first had not yet gone on: one spawned, the other found it running,
\* and one process exists.
C15_Witness ==
    \E t, u \in Threads, i \in Inst :
        /\ AtReturn(t, "start", i) /\ thr[t].path = "started"
        /\ AtReturn(u, "start", i) /\ thr[u].path = "noop"
        /\ Running(i)
        /\ Cardinality({q \in Pid : proc[q].st # "none"}) = 1

\* Thread t takes a step of a wait_for_ready it called on manager i.
WaitStep(t, i) ==
    /\ thr[t].pc \in {"wait_health", "wait_realm"} /\ thr[t].self = i
    /\ thr'[t] # thr[t]

\* C16: wait_for_ready called by itself changes nothing of the manager,
\* the processes, the files or the lock; when the timeout has elapsed in
\* the health loop it raises KeycloakTimeoutError "did not become ready",
\* and a manager running before is running after with the same handle.
C16_WaitTimeoutLeavesInstance ==
    [][\A t \in Threads, i \in Inst :
         WaitStep(t, i) =>
            /\ [mgr' EXCEPT ![i].timed_out = mgr[i].timed_out] = mgr
            /\ proc' = proc /\ fs' = fs /\ lock' = lock
            /\ (thr[t].pc = "wait_health" /\ thr[t].now >= thr[t].timeout) =>
                  /\ thr'[t].pc = "ret" /\ thr'[t].exc = "KeycloakTimeoutError"
                  /\ thr'[t].path = "timeout"
                  /\ Running(i) => (Running(i)' /\ mgr'[i].process = mgr[i].process)]_vars

\* A wait_for_ready has succeeded on the process on which an earlier one
\* timed out.
C16_Witness ==
    \E t \in Threads, i \in Inst :
        /\ AtReturn(t, "wait_for_ready", i) /\ thr[t].path = "ready" /\ thr[t].exc = "none"
        /\ mgr[i].timed_out /\ mgr[i].process = 1 /\ Running(i)

\* C17: a turn of either poll loop that begins within the timeout, gets no
\* 200 and finds the process not running ends the call at once with the
\* "process terminated" error, which is not the "did not become ready"
\* error of the timeout.
C17_DiedFailsAtOnce ==
    [][\A t \in Threads, i \in Inst :
         (/\ WaitStep(t, i) /\ thr[t].now < thr[t].timeout
          /\ ~Running(i) /\ ~serving(mgr[i].mgmt) /\ ~serving(mgr[i].port)) =>
            /\ thr'[t].pc = "ret" /\ thr'[t].exc = "KeycloakTimeoutError"
            /\ thr'[t].path = "died" /\ thr'[t].path \notin {"timeout", "realm_timeout"}
            /\ thr'[t].now = thr[t].now]_vars

\* The process of a started manager died during a wait that had time left.
C17_Witness ==
    \E t \in Threads, i \in Inst :
        /\ AtReturn(t, "wait_for_ready", i) /\ thr[t].path = "died"
        /\ thr[t].now >= 1 /\ thr[t].now < thr[t].timeout
        /\ mgr[i].process # 0 /\ ~Running(i)

\* C18: no turn of the health loop or of the realm loop begins a probe
\* once timeout has elapsed since the entry of wait_for_ready; the realm
\* loop reached at or past that time raises KeycloakTimeoutError.
C18_OneClockForBothPhases ==
    [][\A t \in Threads, i \in Inst :
         WaitStep(t, i) =>
            /\ ~(thr'[t].pc = "ret" /\ thr'[t].path \in {"timeout", "realm_timeout"})
                  => thr[t].now < thr[t].timeout
            /\ (thr[t].pc = "wait_realm" /\ thr[t].now >= thr[t].timeout)
                  => /\ thr'[t].pc = "ret" /\ thr'[t].exc = "KeycloakTimeoutError"
                     /\ thr'[t].path = "realm_timeout"]_vars

\* The time has run out with the call in the realm loop.
C18_Witness ==
    \E t \in Threads, i \in Inst :
        /\ thr[t].pc = "wait_realm" /\ thr[t].self = i
        /\ thr[t].now >= 1 /\ thr[t].now >= thr[t].timeout /\ Running(i)

\* Thread t takes the step at which its start() on manager i raises.
StartRaises(t, i) ==
    /\ thr[t].pc # "ret" /\ thr'[t].pc = "ret"
    /\ thr'[t].op = "start" /\ thr'[t].self = i /\ thr'[t].exc # "none"

Children_of(i) == {q \in Pid : proc[q].owner = i /\ proc[q].st = "alive"}

C21_CleanupStopsKeepsInstall ==
    [][\A t \in Threads, i \in Inst :
         /\ (Calling(t, "cleanup", i) /\ Running(i)) =>
                /\ thr'[t].pc = "stop_wait"
                /\ proc'[mgr[i].process].term
         /\ (Calling(t, "cleanup", i) \/ thr[t].op = "cleanup") =>
                /\ fs'.dir = fs.dir /\ fs'.launcher = fs.launcher
         /\ (thr'[t].pc = "ret" /\ thr'[t].op = "cleanup" /\ thr'[t].self = i) =>
                /\ thr'[t].exc = "none"
                /\ ~(mgr'[i].process # 0 /\ proc'[mgr'[i].process].st = "alive")
                /\ fs'.dir /\ fs'.launcher]_vars

\* cleanup() has stopped a running server that ignored the termination
\* signal, and the installation is in place.
C21_Witness ==
    \E t \in Threads, i \in Inst :
        /\ AtReturn(t, "cleanup", i) /\ thr[t].path = "forced"
        /\ ~Running(i) /\ fs.dir /\ fs.launcher

\* The interpreter is running its exit handlers; it has run them all.
Exiting == \E t \in Threads : thr[t].op = "atexit"
Exited  == \E t \in Threads : thr[t].pc = "exited"

\* What each exit handler does: a handler that finds its instance running
\* sends it the termination signal and waits for it, a handler step never
\* raises, and the step that ends a handler has taken the instance out of
\* the registry.
FinalizerSteps ==
    \A t \in Threads :
        /\ (thr[t].pc = "atexit" /\ thr'[t].pc # "atexit" /\ Running(NextHandler)) =>
               /\ thr'[t].pc = "stop_wait" /\ thr'[t].self = NextHandler
               /\ proc'[mgr[NextHandler].process].term
        /\ thr'[t].op = "atexit" => thr'[t].exc = "none"
        /\ (thr[t].pc = "atexit_remove" /\ thr'[t].pc # "atexit_remove") =>
               /\ ~Running(thr[t].self)
               /\ \A j \in 1..Len(instances') : instances'[j] # thr[t].self

\* C22: at interpreter exit each instance's handler force-stops the instance
\* if it is running and removes it from the registry; once every handler has
\* run no child process of any manager is alive and the registry is empty;
\* the handlers never raise and never block, so the exit completes.
C22_FinalizersLeaveNothing ==
    /\ [][FinalizerSteps]_vars
    /\ [](Exited => (instances = <<>> /\ \A q \in Pid : proc[q].st # "alive"))
    /\ (Exiting ~> Exited)

\* C22, amended: as C22, except that once every handler has run a child
\* may still be alive if a failed start has already killed it (start does
\* not wait for the child it kills, and the handler of an instance that is
\* not running stops nothing); such a child dies without more being done.
C22_FinalizersLeaveOnlyKilled ==
    /\ [][FinalizerSteps]_vars
    /\ [](Exited => (instances = <<>> /\ \A q \in Pid : proc[q].st = "alive" => proc[q].kill))
    /\ (Exiting ~> (Exited /\ \A q \in Pid : proc[q].st # "alive"))

\* Every handler has run, one of them having stopped a running server.
C22_Witness ==
    /\ Exited /\ instances = <<>>
    /\ \E i \in Inst : mgr[i].made /\ mgr[i].cycled /\ ~mgr[i].atexit
    /\ \A q \in Pid : proc[q].st # "alive"

\* The banner shows no release number the check can read.
Unparsable(o) == o.run = "ok" /\ o.shape \in {"ea", "none"}
\* Java is missing (or does not answer), unparsable, or older than 17.
JavaUnfit(o) == o.run # "ok" \/ Unparsable(o) \/ o.major < MinJavaMajor

InstallEnds(t) == thr[t].pc # "ret" /\ thr'[t].pc = "ret" /\ thr'[t].op = "install"

\* C24: a download_and_install() that got past the Java check and does not
\* return raises KeycloakDownloadError, whatever failed (the download
\* refused or cut, a bad archive, an extraction failing part-way); and when
\* the call returns or raises the temporary archive does not exist: it is
\* on disk only while a call is between its download and the end of its
\* extraction.
C24_DownloadErrorsWrappedZipRemoved ==
    /\ [][\A t \in Threads :
            InstallEnds(t) =>
               /\ ~fs'.zip
               /\ (thr'[t].exc # "none" /\ ~JavaUnfit(thr'[t].java)) =>
                     thr'[t].exc = "KeycloakDownloadError"]_vars
    /\ [](fs.zip => \E t \in Threads : thr[t].pc = "install_extract")

\* The extraction of a downloaded archive has failed part-way: the call
\* has raised KeycloakDownloadError and the archive is gone.
C24_Witness ==
    \E t \in Threads, i \in Inst :
        /\ AtReturn(t, "install", i) /\ thr[t].path = "partial"
        /\ thr[t].exc = "KeycloakDownloadError"
        /\ fs.dir /\ ~fs.launcher /\ ~fs.zip

\* A stop() runs _restore_directories on the snapshot of manager i.
Restores(i) == mgr[i].fresh /\ ~mgr'[i].fresh

StopEnds(t, i) ==
    thr[t].pc # "ret" /\ thr'[t].pc = "ret" /\ thr'[t].op = "stop" /\ thr'[t].self = i

\* C26: stop() never raises: when terminate() or kill() raised, when the
\* import document could not be unlinked or when the restore raised, the
\* call still returns, and whenever it has gone through its finally
\* clause, with or without such a failure, the process handle is empty, so
\* the manager is not running when stop() returns.
C26_StopSwallowsFailures ==
    [][\A t \in Threads, i \in Inst :
         StopEnds(t, i) =>
            /\ thr'[t].exc = "none"
            /\ (thr'[t].failed # {} \/ thr'[t].path # "noop") => mgr'[i].process = 0
            /\ ~(mgr'[i].process # 0 /\ proc'[mgr'[i].process].st = "alive")]_vars

\* stop() has returned although terminate() raised, the import document
\* could not be unlinked and the restore raised: the server is still alive
\* and the manager does not hold it any more.
C26_Witness ==
    \E t \in Threads, i \in Inst :
        /\ AtReturn(t, "stop", i) /\ thr[t].exc = "none"
        /\ thr[t].failed = {"terminate", "unlink", "restore"}
        /\ mgr[i].process = 0
        /\ \E q \in Pid : proc[q].owner = i /\ proc[q].st = "alive"

\* C27: any two managers constructed without a data_dir argument have
\* different data directories (hence different log files and snapshot
\* paths), also when constructed back-to-back.
C27_DataDirsDistinct ==
    \A i, j \in Inst :
        (i # j /\ mgr[i].data_dir # 0 /\ mgr[j].data_dir # 0)
            => mgr[i].data_dir # mgr[j].data_dir

\* Thread t holds the document to_keycloak_json returned for thr[t].cfg.
Converted(t) == thr[t].pc = "ret" /\ thr[t].op = "to_keycloak_json"

\* C28: in the document to_keycloak_json() returns, a client entry has a
\* 'secret' exactly when the client has a (non-empty) secret and is not a
\* public client, the secret then being the client's, and every client
\* entry has 'serviceAccountsEnabled' equal to the negation of its
\* 'publicClient', which is the client's public_client.
C28_SecretOnlyForConfidential ==
    \A t \in Threads :
        Converted(t) =>
            /\ Len(thr[t].doc.clients) = Len(thr[t].cfg.clients)
            /\ \A k \in 1..Len(thr[t].cfg.clients) :
                  LET c == thr[t].cfg.clients[k]
                      e == thr[t].doc.clients[k]
                  IN /\ ("secret" \in DOMAIN e) <=>
                           (c.secret # None /\ c.secret # Some("") /\ ~c.public_client)
                     /\ "secret" \in DOMAIN e => e.secret = c.secret[1]
                     /\ e.publicClient = c.public_client
                     /\ e.serviceAccountsEnabled = ~e.publicClient

\* A document with a confidential client, whose secret is written out, and
\* a public client configured with a secret, which is not.
C28_Witness ==
    \E t \in Threads :
        /\ Converted(t) /\ Len(thr[t].doc.clients) = 2
        /\ ~thr[t].cfg.clients[1].public_client
        /\ "secret" \in DOMAIN thr[t].doc.clients[1]
        /\ thr[t].cfg.clients[2].public_client
        /\ thr[t].cfg.clients[2].secret = Some("s3cr3t")
        /\ "secret" \notin DOMAIN thr[t].doc.clients[2]

\* C29: the document has one user entry per configured user and one client
\* entry per configured client, in the configured order; each user entry
\* carries exactly one credential, of type 'password', holding the user's
\* password and not temporary; a configuration without users and clients
\* yields empty 'users' and 'clients' lists.
C29_OneEntryPerUserAndClient ==
    \A t \in Threads :
        Converted(t) =>
            LET cfg == thr[t].cfg
                doc == thr[t].doc
            IN /\ Len(doc.users) = Len(cfg.users)
               /\ Len(doc.clients) = Len(cfg.clients)
               /\ \A k \in 1..Len(cfg.users) :
                     /\ doc.users[k].username = cfg.users[k].username
                     /\ Len(doc.users[k].credentials) = 1
                     /\ doc.users[k].credentials[1] =
                           [type |-> "password", value |-> cfg.users[k].password,
                            temporary |-> FALSE]
               /\ \A k \in 1..Len(cfg.clients) :
                     doc.clients[k].clientId = cfg.clients[k].client_id
               /\ (cfg.users = <<>> /\ cfg.clients = <<>>) =>
                     (doc.users = <<>> /\ doc.clients = <<>>)

\* A document for two different users and a client.
C29_Witness ==
    \E t \in Threads :
        /\ Converted(t)
        /\ Len(thr[t].doc.users) = 2 /\ Len(thr[t].doc.clients) = 1
        /\ thr[t].doc.users[1].username = "bob"
        /\ thr[t].doc.users[2].username = "alice"
        /\ thr[t].doc.users[2].credentials[1].value = "pw-a"

\* C30: a turn of the health loop of wait_for_ready that begins within the
\* timeout with the process alive goes on polling, inside the call and
\* later on its clock, whenever the probe does not answer 200 (a 503, no
\* answer or a refused connection), and leaves the loop without an error
\* when it answers 200; the call raises nothing but KeycloakTimeoutError,
\* for the timeout having elapsed or for the process found dead.
C30_OnlyReadyEndsPolling ==
    [][\A t \in Threads, i \in Inst :
         (WaitStep(t, i) /\ thr[t].pc = "wait_health") =>
            /\ (in_time(t) /\ Running(i)) =>
                  IF health_probe(i) = "200"
                  THEN /\ thr'[t].pc \in {"wait_realm", "ret"}
                       /\ thr'[t].exc = "none"
                  ELSE /\ thr'[t].pc = "wait_health"
                       /\ thr'[t].now > thr[t].now
                       /\ thr'[t].timeout = thr[t].timeout
                       /\ thr'[t].start_time = thr[t].start_time
            /\ (thr'[t].pc = "ret" /\ thr'[t].exc # "none") =>
                  /\ thr'[t].exc = "KeycloakTimeoutError"
                  /\ \/ thr'[t].path = "timeout" /\ ~in_time(t)
                     \/ thr'[t].path = "died" /\ ~Running(i)]_vars

\* A wait_for_ready has polled through a refused connection and a 503 with
\* the process alive, and has raised only when the time had run out.
C30_Witness ==
    \E t \in Threads, i \in Inst :
        /\ AtReturn(t, "wait_for_ready", i) /\ thr[t].path = "timeout"
        /\ thr[t].seen = {"ConnectionError", "503"}
        /\ Running(i)

\* A port on which a bind succeeds now.
Bindable(p) == p \in 0..MaxPort /\ p \notin BoundPorts

\* C31: _find_available_ports(start_port) returns <<p, p + 1000>> for the
\* smallest p of start_port .. start_port + 99 with p and p + 1000 both
\* bindable, and raises KeycloakStartError when there is no such p; it
\* returns no pair with a port in use.
C31_SmallestFreePair ==
    \A t \in Threads :
        (thr[t].pc = "ret" /\ thr[t].op = "find_available_ports") =>
            LET from == thr[t].start_port
                cand == {p \in from..(from + MaxAttempts - 1) :
                             Bindable(p) /\ Bindable(p + MgmtOffset)}
            IN  /\ IF cand = {}
                   THEN thr[t].exc = "KeycloakStartError"
                   ELSE /\ thr[t].exc = "none"
                        /\ thr[t].pair[1] \in cand
                        /\ \A p \in cand : thr[t].pair[1] <= p
                        /\ thr[t].pair[2] = thr[t].pair[1] + MgmtOffset
                /\ thr[t].exc = "none" =>
                      ~is_port_in_use(thr[t].pair[1]) /\ ~is_port_in_use(thr[t].pair[2])

InStart(t, a) ==
    /\ thr[t].op = "start" /\ thr[t].self = a
    /\ thr[t].pc \in {"start_prepare", "start_spawn", "start_settle", "start_health"}

\* C33: while a start() is in progress on one manager, another thread can
\* enter stop() and start() on a different manager and
\* get_running_instances_count(): none of them has to wait for that start.
C33_OtherInstancesNotBlocked ==
    \A t \in Threads, u \in Threads, a \in Inst, b \in Inst :
        (t # u /\ a # b /\ InStart(t, a) /\ thr[u].pc = "idle" /\ mgr[b].made) =>
            /\ ENABLED stop(u, b)
            /\ ENABLED get_running_instances_count_call(u)
            /\ NextPid <= MaxPid => ENABLED start(u, b, FALSE, FALSE)

\* The live reader threads of manager i, each named by its process.
Readers(i) == {q \in Pid : proc[q].owner = i /\ proc[q].reader}

\* C34: a manager has at no time more than one live output reader, and
\* has one while it is running, whatever starts, failed starts and stops
\* came before.
C34_OneLiveReader ==
    \A i \in Inst :
        /\ Cardinality(Readers(i)) <= 1
        /\ Running(i) => Cardinality(Readers(i)) = 1
\* C35: after a download_and_install() that failed in the download or the
\* extraction, the distribution counts as not installed: a start() raises
\* the "not installed" KeycloakStartError, and a download_and_install()
\* never returns as already installed.
C35_FailedInstallIsNotInstalled ==
    [][\A t \in Threads, i \in Inst :
          /\ (Calling(t, "start", i) /\ fs.broken) =>
                 /\ thr'[t].pc = "ret"
                 /\ thr'[t].exc = "KeycloakStartError"
                 /\ thr'[t].path = "not_installed"
          /\ (Calling(t, "install", i) /\ fs.broken) =>
                 thr'[t].path # "already"]_vars

\* The step on which the call of thread t enters stage pc.
Reaches(t, pc) == thr[t].pc # pc /\ thr'[t].pc = pc

\* Process q is spawned on this step.
Spawned(q) == proc[q].st = "none" /\ proc'[q].st = "alive"

\* C36: a start() goes through port check, snapshot, spawn and readiness
\* poll in that order: it gets to the snapshot only from the port check
\* that found both ports free; it gets to the spawn only from the snapshot,
\* then held, no child spawned so far; a child is spawned only by a start at
\* its spawn stage whose snapshot is held; and it polls for readiness only
\* after the spawn, holding the child.
C36_StartOrder ==
    [][/\ \A t \in Threads :
            LET i == thr'[t].self IN
            /\ Reaches(t, "start_prepare") =>
                   /\ thr[t].pc = "idle"
                   /\ ~is_port_in_use(mgr'[i].port)
                   /\ ~is_port_in_use(mgr'[i].mgmt)
                   /\ \A q \in Pid : ~Spawned(q)
            /\ Reaches(t, "start_spawn") =>
                   /\ thr[t].pc = "start_prepare"
                   /\ mgr'[i].backup.set
                   /\ mgr'[i].backup.data = fs'.data /\ mgr'[i].backup.conf = fs'.conf
                   /\ \A q \in Pid : ~Spawned(q)
            /\ Reaches(t, "start_settle") =>
                   /\ thr[t].pc = "start_spawn"
                   /\ Spawned(mgr'[i].process)
            /\ Reaches(t, "start_health") =>
                   /\ thr[t].pc = "start_settle"
                   /\ mgr[i].process # 0 /\ proc[mgr[i].process].st # "none"
            /\ Reaches(t, "start_realm") => thr[t].pc = "start_health"
       /\ \A q \in Pid :
            Spawned(q) =>
               \E t \in Threads :
                  /\ thr[t].pc = "start_spawn" /\ thr'[t].pc = "start_settle"
                  /\ mgr'[thr[t].self].process = q
                  /\ mgr[thr[t].self].backup.set]_vars

\* A start() with a realm_config has snapshotted, spawned its child and
\* seen the server ready: it is polling for the realm.
C36_Witness ==
    \E t \in Threads :
        /\ thr[t].pc = "start_realm"
        /\ mgr[thr[t].self].backup.set
        /\ mgr[thr[t].self].realm_file # 0
        /\ health_ok(thr[t].self)

\* C37: when start() raises because its child exited at once, died during
\* the readiness wait or was not ready in time, that start is rolled back
\* by the time the error reaches the caller: the import document it wrote
\* is not on disk, conf/ and (the import document aside) data/ hold what
\* the snapshot holds, and the manager holds no snapshot reference.
C37_FailedStartRolledBack ==
    [][\A t \in Threads :
         LET i   == thr[t].self
             doc == {RealmFile(mgr[i].port)}
         IN
         (/\ Reaches(t, "ret") /\ thr'[t].op = "start"
          /\ thr'[t].path \in {"exited", "died", "timeout"})
            => /\ thr[t].realm => RealmFile(mgr[i].port) \notin fs'.data.files
               /\ fs'.conf = mgr[i].backup.conf
               /\ fs'.data.files \ doc = mgr[i].backup.data.files \ doc
               /\ ~mgr'[i].backup.set]_vars

\* Manager i holds the handle of a process that has exited.
Crashed(i) == mgr[i].process # 0 /\ proc[mgr[i].process].st = "dead"

\* C38: a stop() or cleanup() on a manager whose process exited on its own
\* after a successful start still cleans up: when it returns the import
\* document is not on disk, conf/ and (the import document aside) data/
\* hold what the snapshot holds, and the process handle is cleared.
C38_StopAfterCrashCleans ==
    [][\A t \in Threads, i \in Inst :
         LET doc == {RealmFile(mgr[i].realm_file)} IN
         (/\ (Calling(t, "stop", i) \/ Calling(t, "cleanup", i))
          /\ Crashed(i) /\ thr'[t].pc = "ret")
            => /\ mgr[i].realm_file # 0 =>
                     RealmFile(mgr[i].realm_file) \notin fs'.data.files
               /\ fs'.conf = mgr[i].backup.conf
               /\ fs'.data.files \ doc = mgr[i].backup.data.files \ doc
               /\ mgr'[i].process = 0]_vars

\* The number of entries of the registry that are manager i.
Occurrences(i) == Cardinality({j \in 1..Len(instances) : instances[j] = i})

\* C39: a manager is in the registry exactly once from the end of its
\* constructor until its exit handler has run, and never more than once;
\* the registry changes only on the registering step of a constructor and
\* the removing step of an exit handler, so start, stop, cleanup,
\* stop_all_instances and the scan of a constructor leave it as it is;
\* and get_running_instances_count() returns the number of registered
\* managers whose process is alive.
C39_RegistryExact ==
    /\ [](\A i \in Inst : /\ mgr[i].atexit => Occurrences(i) = 1
                           /\ Occurrences(i) <= 1)
    /\ [][instances' # instances =>
            \E t \in Threads :
               \/ thr[t].pc = "init_register" /\ thr'[t].pc = "ret"
               \/ thr[t].pc = "atexit_remove" /\ thr'[t].pc # "atexit_remove"]_vars
    /\ [][\A t \in Threads :
            (Reaches(t, "ret") /\ thr'[t].op = "count") =>
               thr'[t].count =
                  Cardinality({i \in Inst : Occurrences(i) >= 1 /\ Running(i)})]_vars

\* get_running_instances_count() has returned 1 with two managers
\* registered, one running and one whose server has exited.
C39_Witness ==
    \E t \in Threads :
        /\ thr[t].pc = "ret" /\ thr[t].op = "count" /\ thr[t].count = 1
        /\ Len(instances) = 2 /\ instances[1] # instances[2]
        /\ \E i \in Inst : Crashed(i)

\* C40: the teardown of keycloak_user calls delete_user once for every id
\* the factory returned during the test, in creation order, whether the
\* test passed or failed: the calls made so far are always the head of
\* created_users, and when the teardown has ended they are all of it and
\* nothing was raised, whichever deletions failed.
C40_TeardownDeletesAll ==
    \A t \in Threads :
       /\ thr[t].pc \in {"user_test", "user_teardown", "user_done"} =>
              /\ Len(thr[t].deletions) <= Len(thr[t].created_users)
              /\ \A k \in 1..Len(thr[t].deletions) :
                     thr[t].deletions[k] = thr[t].created_users[k]
       /\ thr[t].pc = "user_test" => thr[t].deletions = <<>>
       /\ thr[t].pc = "user_done" =>
              /\ thr[t].deletions = thr[t].created_users
              /\ thr[t].exc = "none"

\* The teardown of a failed test that created MaxCreated users has ended:
\* the first deletion failed and the last one succeeded.
C40_Witness ==
    \E t \in Threads :
        /\ thr[t].pc = "user_done" /\ thr[t].path = "test_failed"
        /\ Len(thr[t].created_users) = MaxCreated
        /\ thr[t].created_users[1] \in thr[t].undeleted
        /\ thr[t].created_users[MaxCreated] \notin thr[t].undeleted

====
